---- MODULE Spec2Model ----
(***************************************************************************)
(* Queue consistency and export engine of the B&R PO Extractor.            *)
(*                                                                         *)
(* Text values (customer names, order numbers, dates, descriptions) are    *)
(* sequences of one-character strings so that the normalisation functions  *)
(* are computed character by character, as the code computes them.         *)
(* Calendar days (getTodayKey, the date part of an ISO timestamp) are      *)
(* numbered 1, 2, ...                                                      *)
(***************************************************************************)
EXTENDS Integers, Sequences, FiniteSets, TLC

\* ------------------------------------------------------------------ bounds
\* operator and environment events (clicks, completions of asynchronous calls,
\* timers) that one run of the app is followed for
MaxEvents == 6

\* null / undefined of a record-valued state
Null == [null |-> TRUE]

\* ------------------------------------------------- text helpers (utils.ts)
Whitespace == {" ", "\t"}
Digits == {"0", "1", "2", "3", "4", "5", "6", "7", "8", "9"}

UpperCase == <<"A", "B", "C", "D", "E", "F", "G", "H", "I", "J", "K", "L", "M",
              "N", "O", "P", "Q", "R", "S", "T", "U", "V", "W", "X", "Y", "Z">>
LowerCase == <<"a", "b", "c", "d", "e", "f", "g", "h", "i", "j", "k", "l", "m",
              "n", "o", "p", "q", "r", "s", "t", "u", "v", "w", "x", "y", "z">>
LowerOf == [c \in {UpperCase[i] : i \in DOMAIN UpperCase} |->
              LowerCase[CHOOSE i \in DOMAIN UpperCase : UpperCase[i] = c]]

\* String.prototype.toLowerCase
toLowerCase(s) == [i \in 1..Len(s) |-> IF s[i] \in DOMAIN LowerOf THEN LowerOf[s[i]] ELSE s[i]]

RECURSIVE trimStart(_)
trimStart(s) == IF s # <<>> /\ Head(s) \in Whitespace THEN trimStart(Tail(s)) ELSE s

RECURSIVE trimEnd(_)
trimEnd(s) == IF s # <<>> /\ s[Len(s)] \in Whitespace THEN trimEnd(SubSeq(s, 1, Len(s) - 1)) ELSE s

\* String.prototype.trim
trim(s) == trimEnd(trimStart(s))

\* s.replace(/\s+/g, ' ')
RECURSIVE collapseWhitespace(_)
collapseWhitespace(s) ==
    IF s = <<>> THEN <<>>
    ELSE IF Head(s) \in Whitespace
         THEN <<" ">> \o collapseWhitespace(trimStart(s))
         ELSE <<Head(s)>> \o collapseWhitespace(Tail(s))

\* normalize: lowercase, trim, collapse whitespace
normalize(str) == collapseWhitespace(trim(toLowerCase(str)))

\* a variant of the key that leaves the date out
createDedupeKeyWithoutDate(order) ==
    normalize(order.customer_name) \o <<"|">> \o normalize(order.order_number)

createDedupeKey(order) ==
    normalize(order.customer_name) \o <<"|">> \o normalize(order.order_number)
        \o <<"|">> \o normalize(order.order_date)

\* a variant of the test that looks for the year first
targetFormatRegexYearFirst(s) ==
    /\ Len(s) = 10
    /\ \A i \in {1, 2, 3, 4, 6, 7, 9, 10} : s[i] \in Digits
    /\ s[5] = "/" /\ s[8] = "/"

\* /^\d{2}\/\d{2}\/\d{4}$/.test(s)
targetFormatRegex(s) ==
    /\ Len(s) = 10
    /\ \A i \in {1, 2, 4, 5, 7, 8, 9, 10} : s[i] \in Digits
    /\ s[3] = "/" /\ s[6] = "/"

DigitVal == [c \in Digits |->
               CASE c = "0" -> 0 [] c = "1" -> 1 [] c = "2" -> 2 [] c = "3" -> 3 [] c = "4" -> 4
                 [] c = "5" -> 5 [] c = "6" -> 6 [] c = "7" -> 7 [] c = "8" -> 8 [] c = "9" -> 9]
DigitChar == <<"0", "1", "2", "3", "4", "5", "6", "7", "8", "9">>

\* NaN of parseInt; every comparison with it is false, as with -1 below
NaN == -1

RECURSIVE leadingDigits(_, _)
leadingDigits(s, acc) ==
    IF s = <<>> \/ Head(s) \notin Digits THEN acc
    ELSE leadingDigits(Tail(s), acc * 10 + DigitVal[Head(s)])

\* parseInt(p, 10)
parseInt(p) ==
    LET t == trimStart(p)
    IN IF t = <<>> \/ Head(t) \notin Digits THEN NaN ELSE leadingDigits(t, 0)

\* String(n) for n >= 0
RECURSIVE numberToString(_)
numberToString(n) ==
    IF n < 10 THEN <<DigitChar[n + 1]>>
    ELSE numberToString(n \div 10) \o <<DigitChar[(n % 10) + 1]>>

\* String(n).padStart(2, '0')
padStart2(n) == LET t == numberToString(n) IN IF Len(t) < 2 THEN <<"0">> \o t ELSE t

\* s.split(/[-/]/)
RECURSIVE splitDate(_, _)
splitDate(s, cur) ==
    IF s = <<>> THEN <<cur>>
    ELSE IF Head(s) \in {"-", "/"} THEN <<cur>> \o splitDate(Tail(s), <<>>)
         ELSE splitDate(Tail(s), Append(cur, Head(s)))

\* The host of the app: whether its engine's Date falls back to a lenient
\* parser for text that is not in the ISO form (V8 does, reading nn-nn-nnnn as
\* month-day-year and a word followed by a number as a date), and whether its
\* time zone is behind UTC.
Hosts == [legacyDates : BOOLEAN, west : BOOLEAN]

isLeapYear(y) == y % 4 = 0 /\ (y % 100 # 0 \/ y % 400 = 0)
daysInMonth(y, m) ==
    IF m = 2 THEN (IF isLeapYear(y) THEN 29 ELSE 28)
    ELSE IF m \in {4, 6, 9, 11} THEN 30 ELSE 31
aDate(y, m, d) == [valid |-> TRUE, year |-> y, month |-> m, day |-> d]
InvalidDate == [valid |-> FALSE, year |-> 0, month |-> 0, day |-> 0]
\* day d of month m, d up to 31, counted on into the next month
rolledOver(y, m, d) ==
    IF d <= daysInMonth(y, m) THEN aDate(y, m, d) ELSE aDate(y, m + 1, d - daysInMonth(y, m))
\* the local date of UTC midnight of a date, in a zone behind UTC
dayBefore(date) ==
    IF date.day > 1 THEN aDate(date.year, date.month, date.day - 1)
    ELSE IF date.month > 1
         THEN aDate(date.year, date.month - 1, daysInMonth(date.year, date.month - 1))
         ELSE aDate(date.year - 1, 12, 31)

\* nnnn-nn-nn, nn-nn-nnnn or nn/nn/nnnn
dateShape(s, seps, sep) ==
    /\ Len(s) = 10
    /\ \A i \in 1..10 : IF i \in seps THEN s[i] = sep ELSE s[i] \in Digits
\* letters, a space and one digit from 1 to 9
wordAndDigit(s) ==
    /\ Len(s) >= 3
    /\ s[Len(s)] \in Digits \ {"0"}
    /\ s[Len(s) - 1] = " "
    /\ \A i \in 1..(Len(s) - 2) :
          s[i] \in {UpperCase[k] : k \in DOMAIN UpperCase} \cup {LowerCase[k] : k \in DOMAIN LowerCase}

\* new Date(text) as getFullYear, getMonth + 1 and getDate read it on host.
\* The date-only ISO form is UTC midnight, read in local time; a day past the
\* end of its month is an Invalid Date to a strict parser and the day counted
\* on to the lenient one.  nn/nn/nnnn is month/day/year in local time on every
\* host, nn-nn-nnnn and a word with a digit (a month of 2001) only to the lenient parser; any
\* other text of the model's alphabet is an Invalid Date.
DateParse(s, host) ==
    IF dateShape(s, {5, 8}, "-")
    THEN LET y == parseInt(SubSeq(s, 1, 4))
             m == parseInt(SubSeq(s, 6, 7))
             d == parseInt(SubSeq(s, 9, 10))
         IN IF m \in 1..12 /\ d \in 1..31 /\ (d <= daysInMonth(y, m) \/ host.legacyDates)
            THEN IF host.west THEN dayBefore(rolledOver(y, m, d)) ELSE rolledOver(y, m, d)
            ELSE InvalidDate
    ELSE IF dateShape(s, {3, 6}, "/") \/ (dateShape(s, {3, 6}, "-") /\ host.legacyDates)
    THEN LET m == parseInt(SubSeq(s, 1, 2))
             d == parseInt(SubSeq(s, 4, 5))
             y == parseInt(SubSeq(s, 7, 10))
         IN IF m \in 1..12 /\ d \in 1..31 THEN rolledOver(y, m, d) ELSE InvalidDate
    ELSE IF wordAndDigit(s) /\ host.legacyDates THEN aDate(2001, DigitVal[s[Len(s)]], 1)
    ELSE InvalidDate

NoWarning == <<>>
UnrecognizedDate(t) == <<"Unrecognized date format: ">> \o t

formatDate(day, month, year) ==
    padStart2(day) \o <<"/">> \o padStart2(month) \o <<"/">> \o numberToString(year)

normalizeOrderDate(dateString, host) ==
    IF dateString = <<>> THEN [date |-> <<>>, warning |-> NoWarning]
    ELSE
    LET trimmedDate == trim(dateString)
        dateObj == DateParse(trimmedDate, host)
        parts == splitDate(trimmedDate, <<>>)
        nums == [i \in 1..3 |-> parseInt(parts[i])]
        yearFirst == Len(parts[1]) = 4
        day == IF yearFirst THEN nums[3] ELSE nums[1]
        month == nums[2]
        year == IF yearFirst THEN nums[1] ELSE nums[3]
    IN IF targetFormatRegex(trimmedDate) THEN [date |-> trimmedDate, warning |-> NoWarning]
       ELSE IF dateObj.valid
            THEN [date |-> formatDate(dateObj.day, dateObj.month, dateObj.year),
                  warning |-> NoWarning]
       ELSE IF /\ Len(parts) = 3
               /\ day > 0 /\ day <= 31 /\ month > 0 /\ month <= 12
               /\ year > 1900 /\ year < 2100
            THEN [date |-> formatDate(day, month, year), warning |-> NoWarning]
       ELSE [date |-> trimmedDate, warning |-> UnrecognizedDate(trimmedDate)]


\* ------------------------------------------------------------ input values
CanonicalDate == <<"0", "1", "/", "0", "2", "/", "2", "0", "2", "4">>
RedEnamel == <<"R", "e", "d">>
Thinners == <<"T", "h", "i", "n">>

Row1 == [id |-> <<"row", "-", 1>>, product_description_raw |-> RedEnamel,
         product_description_production |-> RedEnamel, quantity |-> "2", tinting |-> "Y"]
Row2 == [id |-> <<"row", "-", 2>>, product_description_raw |-> Thinners,
         product_description_production |-> Thinners, quantity |-> "TBC", tinting |-> "N"]

\* What the extraction collaborator can return (ProductionOrder, types.ts):
\* two orders that differ in formatting and lines but not in identity, and a
\* third customer's order with an unparseable date and no line items.
FirstOrder ==
    [order |-> [order_date |-> CanonicalDate, customer_name |-> <<"A">>,
                order_number |-> <<"7">>],
     rows |-> <<Row1>>, warnings |-> <<>>]
SameOrderOtherLines ==
    [order |-> [order_date |-> <<" ">> \o CanonicalDate, customer_name |-> <<"a", " ">>,
                order_number |-> <<"7">>],
     rows |-> <<Row1, Row2>>, warnings |-> <<>>]
EmptyOrder ==
    [order |-> [order_date |-> <<"T", "B", "C">>, customer_name |-> <<"B">>,
                order_number |-> <<"7">>],
     rows |-> <<>>, warnings |-> <<>>]
Results == {FirstOrder, SameOrderOtherLines, EmptyOrder}

\* the host the app of Spec runs on; the dates of Results are in the target
\* form or no date to any host
AppHost == [legacyDates |-> TRUE, west |-> FALSE]

\* generateOrderId: timestamp plus four random characters; equal ids are possible
OrderIds == {"PO-1", "PO-2"}

PdfFileName == "order.pdf"
PdfText == "text of order.pdf"
PastedName == "Pasted Text"
PastedText == "pasted text"

NoError == "null"
ExtractionErrors == {"Gemini API Key is missing", "Failed to parse the AI response as JSON"}
PdfErrors == {"Could not extract any text from the PDF"}

\* ------------------------------------------------------------------- state
VARIABLES
    today,              \* getTodayKey() at this moment
    dailyQueue,         \* [day_key, items]
    pendingDuplicate,   \* DailyQueueItem or Null
    isQueueExported,
    isLoading,
    processingItem,     \* [filename, text, source] or Null
    extractedData,      \* ProductionOrder or Null
    fileName,
    error,
    extractionSource,
    activeView,
    intakeMode,
    toastInfo,          \* [message, detail, type] or Null
    isRestored,
    savePending,        \* the 500 ms timer of the save effect is armed
    persistOps,         \* saveSession / clearSession calls in flight, oldest first
    idb,                \* the record under KEY in the IndexedDB store, or Null
    ls,                 \* the session under LS_FALLBACK_KEY in localStorage, or Null
    extractions,        \* extraction calls in flight, each with the queue its closure holds
    exports,            \* full-queue exports in flight
    rollbacks,          \* rollback requests in flight
    workbooks,          \* batch workbooks written to disk so far
    posts,              \* payloads POSTed to the remote so far
    stalled,            \* saveSession / clearSession calls left awaiting for good
    alignInput,         \* the arguments of a call of alignDataToHeaders
    alignedRows,        \* what the call returned
    alignDone,          \* the call has returned
    call,               \* the function called on its own and its arguments
    returned,           \* what that call returned, or Null before it has
    events              \* events so far

\* everything but the timer and the event count
appVars == <<today, dailyQueue, pendingDuplicate, isQueueExported, isLoading, processingItem,
             extractedData, fileName, error, extractionSource, activeView, intakeMode,
             toastInfo, isRestored, persistOps, idb, ls, extractions, exports, rollbacks,
             workbooks, posts, stalled>>
alignVars == <<alignInput, alignedRows, alignDone>>
callVars == <<call, returned>>
vars == <<appVars, savePending, events, alignVars, callVars>>

queueVars == <<dailyQueue, isQueueExported>>
displayVars == <<extractedData, fileName, error, extractionSource>>
exportVars == <<exports, rollbacks, workbooks, posts>>
sessionVars == <<isRestored, persistOps, idb, ls, stalled>>

RemoveAt(seq, i) == SubSeq(seq, 1, i - 1) \o SubSeq(seq, i + 1, Len(seq))
Toast(m, d, t) == [message |-> m, detail |-> d, type |-> t]

\* ---------------------------------------------------------- queue (App.tsx)
\* a variant of the updater that has no day rollover
appendedQueueNoRollover(currentQueue, itemToAdd, todayKey) ==
    [currentQueue EXCEPT !.items = Append(currentQueue.items, itemToAdd)]

\* the state updater of appendItemToQueue
appendedQueue(currentQueue, itemToAdd, todayKey) ==
    IF currentQueue.day_key # todayKey
    THEN [day_key |-> todayKey, items |-> <<itemToAdd>>]
    ELSE [currentQueue EXCEPT !.items = Append(currentQueue.items, itemToAdd)]

\* a variant of appendItemToQueue that leaves the exported flag alone
appendItemToQueueKeepsFlag(itemToAdd) ==
    /\ dailyQueue' = appendedQueue(dailyQueue, itemToAdd, today)
    /\ UNCHANGED isQueueExported

appendItemToQueue(itemToAdd) ==
    /\ dailyQueue' = appendedQueue(dailyQueue, itemToAdd, today)
    /\ isQueueExported' = FALSE

\* a variant of newQueueItem whose line numbers start at 0
newQueueItemZeroBased(data, order_id, source_filename, now) ==
    [order_id |-> order_id,
     created_at_iso |-> now,
     source_filename |-> source_filename,
     order_date |-> data.order.order_date,
     customer_name |-> data.order.customer_name,
     order_number |-> data.order.order_number,
     dedupe_key |-> createDedupeKey(data.order),
     items |-> [index \in 1..Len(data.rows) |->
                  [line_id |-> <<order_id, "-L", index - 1>>,
                   product_description_raw |-> data.rows[index].product_description_raw,
                   product_description_production |->
                       data.rows[index].product_description_production,
                   quantity |-> data.rows[index].quantity,
                   tinting |-> data.rows[index].tinting]]]

newQueueItem(data, order_id, source_filename, now) ==
    [order_id |-> order_id,
     created_at_iso |-> now,
     source_filename |-> source_filename,
     order_date |-> data.order.order_date,
     customer_name |-> data.order.customer_name,
     order_number |-> data.order.order_number,
     dedupe_key |-> createDedupeKey(data.order),
     items |-> [index \in 1..Len(data.rows) |->
                  [line_id |-> <<order_id, "-L", index>>,
                   product_description_raw |-> data.rows[index].product_description_raw,
                   product_description_production |->
                       data.rows[index].product_description_production,
                   quantity |-> data.rows[index].quantity,
                   tinting |-> data.rows[index].tinting]]]

\* processNewOrder, first part: the date of the result is normalised in place
normalizedResult(result) ==
    LET n == normalizeOrderDate(result.order.order_date, AppHost)
        hasIt == \E i \in 1..Len(result.warnings) : result.warnings[i] = n.warning
    IN [result EXCEPT !.order.order_date = n.date,
                      !.warnings = IF n.warning # NoWarning /\ ~hasIt
                                   THEN Append(@, n.warning) ELSE @]

\* The handlers are closures over the dailyQueue of the render that created
\* them.  processNewOrder reads nothing of that queue but the dedupe keys of
\* its items, so an extraction in flight carries those.
dedupeKeys(queue) == [i \in 1..Len(queue.items) |-> queue.items[i].dedupe_key]

\* dailyQueue.items.some(item => item.dedupe_key === dedupe_key)
isDuplicate(closureKeys, dedupe_key) ==
    \E i \in 1..Len(closureKeys) : closureKeys[i] = dedupe_key

\* processNewOrder(extractedData, source_filename) as called from the closure
\* that holds closureKeys
processNewOrder(data, source_filename, order_id, closureKeys) ==
    LET item == newQueueItem(data, order_id, source_filename, today)
    IN /\ IF isDuplicate(closureKeys, item.dedupe_key)
          THEN /\ pendingDuplicate' = item
               /\ UNCHANGED queueVars
          ELSE /\ appendItemToQueue(item)
               /\ UNCHANGED pendingDuplicate
       /\ activeView' = "extraction"

\* ------------------------------------------------ session (persistence.ts)
persistedItem(item) ==
    [id |-> item.order_id,
     filename |-> item.source_filename,
     source |-> "upload",
     addedAtISO |-> item.created_at_iso,
     status |-> "done",
     extracted |-> [header |-> [customer_name |-> item.customer_name,
                                order_number |-> item.order_number,
                                order_date |-> item.order_date,
                                dedupe_key |-> item.dedupe_key],
                    lines |-> item.items]]

processingEntry(proc, now) ==
    [id |-> "pending", filename |-> proc.filename,
     source |-> IF proc.source = "pdf" THEN "upload" ELSE "dragdrop",
     addedAtISO |-> now, status |-> "processing", rawText |-> proc.text]

\* the PersistedSession that saveSession builds at time now
buildSession(queue, view, mode, exported, data, name, source, proc, now) ==
    [schemaVersion |-> 1,
     savedAtISO |-> now,
     queue |-> [i \in 1..Len(queue.items) |-> persistedItem(queue.items[i])]
                 \o (IF proc # Null THEN <<processingEntry(proc, now)>> ELSE <<>>),
     currentExtraction |-> IF data # Null
                           THEN [data |-> data, fileName |-> name, source |-> source]
                           ELSE Null,
     ui |-> [activeTab |-> view, intakeMode |-> mode, isQueueExported |-> exported]]

\* a variant of the load loop that numbers the lines of an order anew, from 0
restoredItemRenumbered(pItem) ==
    [order_id |-> pItem.id,
     created_at_iso |-> pItem.addedAtISO,
     source_filename |-> pItem.filename,
     order_date |-> pItem.extracted.header.order_date,
     customer_name |-> pItem.extracted.header.customer_name,
     order_number |-> pItem.extracted.header.order_number,
     dedupe_key |-> pItem.extracted.header.dedupe_key,
     items |-> [k \in 1..Len(pItem.extracted.lines) |->
                  [pItem.extracted.lines[k] EXCEPT !.line_id = <<pItem.id, "-L", k - 1>>]]]

restoredItem(pItem) ==
    [order_id |-> pItem.id,
     created_at_iso |-> pItem.addedAtISO,
     source_filename |-> pItem.filename,
     order_date |-> pItem.extracted.header.order_date,
     customer_name |-> pItem.extracted.header.customer_name,
     order_number |-> pItem.extracted.header.order_number,
     dedupe_key |-> pItem.extracted.header.dedupe_key,
     items |-> pItem.extracted.lines]

isDone(pItem) == pItem.status = "done" /\ "extracted" \in DOMAIN pItem
isInterrupted(pItem) ==
    /\ pItem.status \in {"processing", "queued"}
    /\ "rawText" \in DOMAIN pItem /\ pItem.rawText # ""

\* the loop of loadSession: the last interrupted entry wins
RECURSIVE lastInterrupted(_)
lastInterrupted(queue) ==
    IF queue = <<>> THEN Null
    ELSE IF isInterrupted(queue[Len(queue)])
         THEN [filename |-> queue[Len(queue)].filename, text |-> queue[Len(queue)].rawText]
         ELSE lastInterrupted(SubSeq(queue, 1, Len(queue) - 1))

\* a variant of loadSession that files the restored items under the current
\* day
restoredSessionUnderToday(session) ==
    LET done == SelectSeq(session.queue, isDone)
    IN [dailyQueue |-> [day_key |-> today,
                        items |-> [i \in 1..Len(done) |-> restoredItem(done[i])]],
        ui |-> session.ui,
        currentExtraction |-> session.currentExtraction,
        restoredProcessingItem |-> lastInterrupted(session.queue)]

\* what loadSession returns for a stored session
restoredSession(session) ==
    LET done == SelectSeq(session.queue, isDone)
    IN [dailyQueue |-> [day_key |-> session.savedAtISO,
                        items |-> [i \in 1..Len(done) |-> restoredItem(done[i])]],
        ui |-> session.ui,
        currentExtraction |-> session.currentExtraction,
        restoredProcessingItem |-> lastInterrupted(session.queue)]

\* a variant of the fallback that asks localStorage first
storedSessionPrefersLocal(idbReadOk, lsReadOk) ==
    IF lsReadOk /\ ls # Null THEN ls
    ELSE IF idbReadOk THEN idb ELSE Null

\* loadSession: the IndexedDB record if the read succeeds with one, else the
\* localStorage one, else nothing
storedSession(idbReadOk, lsReadOk) ==
    IF idbReadOk /\ idb # Null THEN idb
    ELSE IF lsReadOk THEN ls ELSE Null

\* loadSession() given whether the two reads succeed
loadSession(idbReadOk, lsReadOk) ==
    IF storedSession(idbReadOk, lsReadOk) = Null THEN Null
    ELSE restoredSession(storedSession(idbReadOk, lsReadOk))

\* loadSession throws on a stored record without a queue to iterate (TypeError)
\* or without a savedAtISO to convert (RangeError in toISOString)
loadSessionThrows(session) ==
    "queue" \notin DOMAIN session \/ "savedAtISO" \notin DOMAIN session

\* the effect that runs initSession on mount; what loadSession throws is
\* caught and logged
initSession(idbReadOk, lsReadOk) ==
    /\ ~isRestored
    /\ LET stored == storedSession(idbReadOk, lsReadOk)
           loaded == loadSession(idbReadOk, lsReadOk)
       IN IF stored = Null \/ loadSessionThrows(stored)
          THEN UNCHANGED <<queueVars, activeView, intakeMode, displayVars, toastInfo>>
          ELSE /\ dailyQueue' = loaded.dailyQueue
               /\ activeView' = loaded.ui.activeTab
               /\ intakeMode' = loaded.ui.intakeMode
               /\ isQueueExported' = loaded.ui.isQueueExported
               /\ IF loaded.currentExtraction # Null
                  THEN /\ extractedData' = loaded.currentExtraction.data
                       /\ fileName' = loaded.currentExtraction.fileName
                       /\ extractionSource' = loaded.currentExtraction.source
                  ELSE UNCHANGED <<extractedData, fileName, extractionSource>>
               /\ toastInfo' = Toast("Restored previous session",
                                     IF loaded.restoredProcessingItem # Null
                                     THEN "Also recovered an interrupted extraction." ELSE "",
                                     "success")
               /\ UNCHANGED error
    /\ isRestored' = TRUE
    /\ UNCHANGED <<today, pendingDuplicate, isLoading, processingItem, persistOps, idb, ls, stalled,
                   extractions, exportVars>>

\* What an earlier run of the app can have left in the stores: nothing, an
\* exported queue of the day before, or an unexported queue of the same day.
StoredQueue(day) ==
    [day_key |-> day,
     items |-> <<newQueueItem(normalizedResult(FirstOrder), "PO-1", PdfFileName, day)>>]
YesterdaySession ==
    buildSession(StoredQueue(0), "extraction", "pdf", TRUE, Null, "", "null", Null, 0)
TodaySession ==
    buildSession(StoredQueue(1), "extraction", "text", FALSE, Null, "", "null", Null, 1)
\* What a later version of the app can have left: a record of the same shape
\* under a higher schemaVersion, or one of another shape.
LaterSessionSameShape == [TodaySession EXCEPT !.schemaVersion = 2]
LaterSessionOtherShape ==
    [schemaVersion |-> 2, savedAt |-> 1, orders |-> StoredQueue(1).items, ui |-> TodaySession.ui]
LaterStores ==
    {<<LaterSessionSameShape, LaterSessionSameShape>>,
     <<LaterSessionOtherShape, LaterSessionOtherShape>>,
     <<Null, LaterSessionSameShape>>, <<LaterSessionOtherShape, TodaySession>>,
     <<TodaySession, LaterSessionSameShape>>}
\* <<IndexedDB record, localStorage record>> at start
PriorStores ==
    {<<Null, Null>>, <<YesterdaySession, YesterdaySession>>, <<TodaySession, TodaySession>>,
     <<Null, TodaySession>>, <<YesterdaySession, TodaySession>>}

\* ------------------------------------------------------ extraction (App.tsx)
\* handleFileSelect up to fileReader.readAsArrayBuffer.  The file input and
\* its button are disabled while isLoading; the drop zone is not.
handleFileSelect(via) ==
    /\ activeView = "extraction" /\ intakeMode = "pdf"
    /\ via = "select" => ~isLoading
    /\ isLoading' = TRUE
    /\ error' = NoError
    /\ extractedData' = Null
    /\ fileName' = PdfFileName
    /\ pendingDuplicate' = Null
    /\ extractionSource' = "PDF"
    /\ extractions' = Append(extractions,
           [source |-> "pdf", stage |-> "reading", filename |-> PdfFileName,
            text |-> PdfText, closureKeys |-> dedupeKeys(dailyQueue)])
    /\ UNCHANGED <<today, queueVars, processingItem, activeView, intakeMode, toastInfo,
                   sessionVars, exportVars>>

\* fileReader.onerror
fileReaderOnError(i) ==
    /\ i \in 1..Len(extractions) /\ extractions[i].stage = "reading"
    /\ error' = "Error reading file."
    /\ isLoading' = FALSE
    /\ processingItem' = Null
    /\ extractions' = RemoveAt(extractions, i)
    /\ UNCHANGED <<today, queueVars, pendingDuplicate, extractedData, fileName,
                   extractionSource, activeView, intakeMode, toastInfo, sessionVars, exportVars>>

\* fileReader.onload without a result
fileReaderOnLoadEmpty(i) ==
    /\ i \in 1..Len(extractions) /\ extractions[i].stage = "reading"
    /\ error' = "Failed to read the PDF file."
    /\ isLoading' = FALSE
    /\ extractions' = RemoveAt(extractions, i)
    /\ UNCHANGED <<today, queueVars, pendingDuplicate, processingItem, extractedData, fileName,
                   extractionSource, activeView, intakeMode, toastInfo, sessionVars, exportVars>>

\* fileReader.onload: pdf.js throws, or the document has no text
pdfTextFailed(i, message) ==
    /\ i \in 1..Len(extractions) /\ extractions[i].stage = "reading"
    /\ error' = "Extraction failed: " \o message
    /\ isLoading' = FALSE
    /\ processingItem' = Null
    /\ extractions' = RemoveAt(extractions, i)
    /\ UNCHANGED <<today, queueVars, pendingDuplicate, extractedData, fileName,
                   extractionSource, activeView, intakeMode, toastInfo, sessionVars, exportVars>>

\* fileReader.onload: text extracted, the model call starts
pdfTextReady(i) ==
    /\ i \in 1..Len(extractions) /\ extractions[i].stage = "reading"
    /\ processingItem' = [filename |-> extractions[i].filename, text |-> extractions[i].text,
                          source |-> "pdf"]
    /\ extractions' = [extractions EXCEPT ![i].stage = "gemini"]
    /\ UNCHANGED <<today, queueVars, pendingDuplicate, isLoading, displayVars, activeView,
                   intakeMode, toastInfo, sessionVars, exportVars>>

\* handleTextExtract up to the await of the model call.  PasteTextInput calls
\* it only if canExtract, which needs !isLoading (its button and textarea are
\* disabled meanwhile); the handler itself does not look at isLoading.
handleTextExtract ==
    /\ activeView = "extraction" /\ intakeMode = "text"
    /\ ~isLoading
    /\ isLoading' = TRUE
    /\ error' = NoError
    /\ extractedData' = Null
    /\ fileName' = PastedName
    /\ pendingDuplicate' = Null
    /\ extractionSource' = "TEXT"
    /\ processingItem' = [filename |-> PastedName, text |-> PastedText, source |-> "text"]
    /\ extractions' = Append(extractions,
           [source |-> "text", stage |-> "gemini", filename |-> PastedName,
            text |-> PastedText, closureKeys |-> dedupeKeys(dailyQueue)])
    /\ UNCHANGED <<today, queueVars, activeView, intakeMode, toastInfo, sessionVars, exportVars>>

\* callGeminiAndProcess: extractDataFromPdfText resolves
geminiResolved(i, result, order_id) ==
    /\ i \in 1..Len(extractions) /\ extractions[i].stage = "gemini"
    /\ extractedData' = normalizedResult(result)
    /\ processNewOrder(normalizedResult(result), extractions[i].filename, order_id,
                       extractions[i].closureKeys)
    /\ isLoading' = FALSE
    /\ processingItem' = Null
    /\ extractions' = RemoveAt(extractions, i)
    /\ UNCHANGED <<today, fileName, error, extractionSource, intakeMode, toastInfo,
                   sessionVars, exportVars>>

\* a variant of callGeminiAndProcess whose finally leaves processingItem set
geminiRejectedKeepsProcessing(i, message) ==
    /\ i \in 1..Len(extractions) /\ extractions[i].stage = "gemini"
    /\ error' = "Extraction failed: " \o message
    /\ isLoading' = FALSE
    /\ extractions' = RemoveAt(extractions, i)
    /\ UNCHANGED <<today, queueVars, pendingDuplicate, processingItem, extractedData, fileName,
                   extractionSource, activeView, intakeMode, toastInfo, sessionVars, exportVars>>

\* a variant of callGeminiAndProcess without the finally block
geminiRejectedStaysLoading(i, message) ==
    /\ i \in 1..Len(extractions) /\ extractions[i].stage = "gemini"
    /\ error' = "Extraction failed: " \o message
    /\ extractions' = RemoveAt(extractions, i)
    /\ UNCHANGED <<today, queueVars, pendingDuplicate, isLoading, processingItem, extractedData,
                   fileName, extractionSource, activeView, intakeMode, toastInfo, sessionVars,
                   exportVars>>

\* callGeminiAndProcess: extractDataFromPdfText rejects
geminiRejected(i, message) ==
    /\ i \in 1..Len(extractions) /\ extractions[i].stage = "gemini"
    /\ error' = "Extraction failed: " \o message
    /\ isLoading' = FALSE
    /\ processingItem' = Null
    /\ extractions' = RemoveAt(extractions, i)
    /\ UNCHANGED <<today, queueVars, pendingDuplicate, extractedData, fileName,
                   extractionSource, activeView, intakeMode, toastInfo, sessionVars, exportVars>>

\* ------------------------------------------------- duplicate and queue panel
\* a variant of handleAddAnyway that forgets to clear the pending item
handleAddAnywayKeepsPending ==
    /\ activeView = "extraction"
    /\ pendingDuplicate # Null
    /\ appendItemToQueue(pendingDuplicate)
    /\ UNCHANGED <<today, pendingDuplicate, isLoading, processingItem, displayVars, activeView,
                   intakeMode, toastInfo, sessionVars, extractions, exportVars>>

handleAddAnyway ==
    /\ activeView = "extraction"
    /\ pendingDuplicate # Null
    /\ appendItemToQueue(pendingDuplicate)
    /\ pendingDuplicate' = Null
    /\ UNCHANGED <<today, isLoading, processingItem, displayVars, activeView, intakeMode,
                   toastInfo, sessionVars, extractions, exportVars>>

handleCancelDuplicate ==
    /\ activeView = "extraction"
    /\ pendingDuplicate # Null
    /\ pendingDuplicate' = Null
    /\ UNCHANGED <<today, queueVars, isLoading, processingItem, displayVars, activeView,
                   intakeMode, toastInfo, sessionVars, extractions, exportVars>>

\* a variant of the updater that drops only the first item of the order
withoutFirstOfOrder(currentQueue, orderId) ==
    LET hits == {i \in 1..Len(currentQueue.items) : currentQueue.items[i].order_id = orderId}
    IN IF hits = {} THEN currentQueue
       ELSE [currentQueue EXCEPT !.items =
                LET first == CHOOSE i \in hits : \A j \in hits : i <= j
                IN SubSeq(@, 1, first - 1) \o SubSeq(@, first + 1, Len(@))]

\* the updater of handleRemoveQueueItem:
\* {...currentQueue, items: currentQueue.items.filter(item => item.order_id !== orderId)}
withoutOrder(currentQueue, orderId) ==
    [currentQueue EXCEPT !.items = SelectSeq(@, LAMBDA item : item.order_id # orderId)]

\* the Remove button of a row of the queue panel
handleRemoveQueueItem(orderId) ==
    /\ activeView = "extraction"
    /\ \E i \in 1..Len(dailyQueue.items) : dailyQueue.items[i].order_id = orderId
    /\ dailyQueue' = withoutOrder(dailyQueue, orderId)
    /\ isQueueExported' = FALSE
    /\ UNCHANGED <<today, pendingDuplicate, isLoading, processingItem, displayVars, activeView,
                   intakeMode, toastInfo, sessionVars, extractions, exportVars>>

\* dailyQueue.items.find(item => item.order_id === orderId)
findItem(items, orderId) ==
    items[CHOOSE i \in 1..Len(items) :
             /\ items[i].order_id = orderId
             /\ \A j \in 1..(i - 1) : items[j].order_id # orderId]

orderForDisplay(itemToOpen) ==
    [order |-> [order_date |-> itemToOpen.order_date,
                customer_name |-> itemToOpen.customer_name,
                order_number |-> itemToOpen.order_number],
     rows |-> [k \in 1..Len(itemToOpen.items) |->
                 [id |-> itemToOpen.items[k].line_id,
                  product_description_raw |-> itemToOpen.items[k].product_description_raw,
                  product_description_production |->
                      itemToOpen.items[k].product_description_production,
                  quantity |-> itemToOpen.items[k].quantity,
                  tinting |-> itemToOpen.items[k].tinting]],
     warnings |-> <<>>]

handleOpenQueueItem(orderId) ==
    /\ activeView = "extraction"
    /\ \E i \in 1..Len(dailyQueue.items) : dailyQueue.items[i].order_id = orderId
    /\ extractedData' = orderForDisplay(findItem(dailyQueue.items, orderId))
    /\ fileName' = findItem(dailyQueue.items, orderId).source_filename
    /\ error' = NoError
    /\ isLoading' = FALSE
    /\ pendingDuplicate' = Null
    /\ activeView' = "extraction"
    /\ UNCHANGED <<today, queueVars, processingItem, extractionSource, intakeMode, toastInfo,
                   sessionVars, extractions, exportVars>>

\* the tab buttons and the intake switch
setActiveView(view) ==
    /\ activeView # view
    /\ activeView' = view
    /\ UNCHANGED <<today, queueVars, pendingDuplicate, isLoading, processingItem, displayVars,
                   intakeMode, toastInfo, sessionVars, extractions, exportVars>>

setIntakeMode(mode) ==
    /\ activeView = "extraction"
    /\ intakeMode # mode
    /\ intakeMode' = mode
    /\ UNCHANGED <<today, queueVars, pendingDuplicate, isLoading, processingItem, displayVars,
                   activeView, toastInfo, sessionVars, extractions, exportVars>>

\* the calendar day of new Date() moves on
dayPasses ==
    /\ today' = today + 1
    /\ UNCHANGED <<queueVars, pendingDuplicate, isLoading, processingItem, displayVars,
                   activeView, intakeMode, toastInfo, sessionVars, extractions, exportVars>>

\* --------------------------------------------------- full-queue export path
lineCount(items) ==
    LET RECURSIVE sum(_)
        sum(k) == IF k = 0 THEN 0 ELSE Len(items[k].items) + sum(k - 1)
    IN sum(Len(items))

TemplateErrors == {"Failed to fetch sheet", "Extraction sheet is empty.", "Tinting sheet is empty."}
RemoteMessages == {"", "Sheet is locked"}

\* what the POST to WEB_APP_URL can come back with
PostOutcomes ==
    {[kind |-> "network"], [kind |-> "http"], [kind |-> "badjson"]}
    \cup {[kind |-> "json", duplicate |-> d, ok |-> o, message |-> m] :
             d \in BOOLEAN, o \in BOOLEAN, m \in RemoteMessages}

\* handleExportXlsx up to the await of fetchSheetHeadersAndMaxBatch.  The panel
\* disables the button when the queue is empty or already exported.
handleExportXlsx ==
    /\ activeView = "extraction"
    /\ Len(dailyQueue.items) > 0 /\ ~isQueueExported
    /\ toastInfo' = Toast("Starting export... Fetching template headers.", "", "success")
    /\ exports' = Append(exports, [stage |-> "fetch", queue |-> dailyQueue, wrote |-> FALSE])
    /\ UNCHANGED <<today, queueVars, pendingDuplicate, isLoading, processingItem, displayVars,
                   activeView, intakeMode, sessionVars, extractions, rollbacks, workbooks, posts>>

\* fetchSheetHeadersAndMaxBatch rejects: the catch block of handleExportXlsx
exportTemplateFailed(i, message) ==
    /\ i \in 1..Len(exports) /\ exports[i].stage = "fetch"
    /\ toastInfo' = Toast("Export failed: ", message, "error")
    /\ exports' = RemoveAt(exports, i)
    /\ UNCHANGED <<today, queueVars, pendingDuplicate, isLoading, processingItem, displayVars,
                   activeView, intakeMode, sessionVars, extractions, rollbacks, workbooks, posts>>

\* exportStyledDailyXlsx writes nothing when there is no extraction row
writesWorkbook(queue) == lineCount(queue.items) > 0

\* fetchSheetHeadersAndMaxBatch resolves: align, write the workbook, send the POST
exportTemplateFetched(i) ==
    /\ i \in 1..Len(exports) /\ exports[i].stage = "fetch"
    /\ workbooks' = IF writesWorkbook(exports[i].queue) THEN workbooks + 1 ELSE workbooks
    /\ toastInfo' = Toast("Syncing to Google Sheets...", "", "success")
    /\ posts' = posts + 1
    /\ exports' = [exports EXCEPT ![i].stage = "post",
                                  ![i].wrote = writesWorkbook(exports[i].queue)]
    /\ UNCHANGED <<today, queueVars, pendingDuplicate, isLoading, processingItem, displayVars,
                   activeView, intakeMode, sessionVars, extractions, rollbacks>>

\* a variant of the branches that takes every JSON answer for a success
exportOutcomeAnyJson(response) ==
    IF response.kind = "json"
    THEN [exported |-> TRUE, toast |-> Toast("Export complete! Batch #", "", "success")]
    ELSE [exported |-> FALSE, toast |-> Toast("Export failed: ", "Failed to fetch", "error")]

\* the branches of handleExportXlsx after the POST
exportOutcome(response) ==
    CASE response.kind = "network" ->
           [exported |-> FALSE,
            toast |-> Toast("Export failed: ", "Network Error (Failed to fetch)", "error")]
      [] response.kind = "http" ->
           [exported |-> FALSE,
            toast |-> Toast("Export failed: ", "Google Apps Script returned an error status",
                            "error")]
      [] response.kind = "badjson" ->
           [exported |-> FALSE,
            toast |-> Toast("Export failed: ", "Unexpected token in JSON", "error")]
      [] response.kind = "json" ->
           IF response.duplicate
           THEN [exported |-> TRUE,
                 toast |-> Toast("Already backed up - duplicate prevented.", "", "success")]
           ELSE IF response.ok
           THEN [exported |-> TRUE, toast |-> Toast("Export complete! Batch #", "", "success")]
           ELSE [exported |-> FALSE,
                 toast |-> Toast("Export failed: ",
                                 IF response.message # "" THEN response.message
                                 ELSE "The backup script reported an error but returned no message.",
                                 "error")]

exportResponded(i, response) ==
    /\ i \in 1..Len(exports) /\ exports[i].stage = "post"
    /\ toastInfo' = exportOutcome(response).toast
    /\ isQueueExported' = IF exportOutcome(response).exported THEN TRUE ELSE isQueueExported
    /\ exports' = RemoveAt(exports, i)
    /\ UNCHANGED <<today, dailyQueue, pendingDuplicate, isLoading, processingItem, displayVars,
                   activeView, intakeMode, sessionVars, extractions, rollbacks, workbooks, posts>>

\* ------------------------------------------------------------------ rollback
\* what triggerSheetAction('clear_current_batch') can come back with
SheetActionOutcomes ==
    {[kind |-> "throws"]} \cup
    {[kind |-> "json", ok |-> o, message |-> m] : o \in BOOLEAN, m \in RemoteMessages}

\* handleClearSheetBatch up to the await; the button exists only while exported
handleClearSheetBatch(confirmed) ==
    /\ activeView = "extraction"
    /\ isQueueExported
    /\ IF ~confirmed
       THEN UNCHANGED appVars
       ELSE /\ isLoading' = TRUE
            /\ toastInfo' = Toast("Requesting sheet rollback...", "", "success")
            /\ rollbacks' = rollbacks + 1
            /\ UNCHANGED <<today, queueVars, pendingDuplicate, processingItem, displayVars,
                           activeView, intakeMode, sessionVars, extractions, exports,
                           workbooks, posts>>

\* a variant that re-enables the export whatever the remote answered
rollbackOutcomeAlwaysClears(result) ==
    [cleared |-> TRUE,
     toast |-> Toast("Rollback successful. Last batch removed from Google Sheet.", "",
                     "success")]

rollbackOutcome(result) ==
    IF result.kind = "json" /\ result.ok
    THEN [cleared |-> TRUE,
          toast |-> Toast("Rollback successful. Last batch removed from Google Sheet.", "",
                          "success")]
    ELSE [cleared |-> FALSE,
          toast |-> Toast("Rollback failed: ",
                          IF result.kind = "json" /\ result.message # "" THEN result.message
                          ELSE IF result.kind = "json" THEN "Rollback failed."
                          ELSE "Failed to fetch",
                          "error")]

rollbackResponded(result) ==
    /\ rollbacks > 0
    /\ toastInfo' = rollbackOutcome(result).toast
    /\ isQueueExported' = IF rollbackOutcome(result).cleared THEN FALSE ELSE isQueueExported
    /\ isLoading' = FALSE
    /\ rollbacks' = rollbacks - 1
    /\ UNCHANGED <<today, dailyQueue, pendingDuplicate, processingItem, displayVars, activeView,
                   intakeMode, sessionVars, extractions, exports, workbooks, posts>>

\* handleClearQueue up to the await of clearSession, after the panel's confirm
\* dialog was accepted
handleClearQueue ==
    /\ activeView = "extraction"
    /\ Len(dailyQueue.items) > 0
    /\ dailyQueue' = [dailyQueue EXCEPT !.items = <<>>]
    /\ isQueueExported' = FALSE
    /\ persistOps' = Append(persistOps, [op |-> "clear"])
    /\ UNCHANGED <<today, pendingDuplicate, isLoading, processingItem, displayVars, activeView,
                   intakeMode, toastInfo, isRestored, idb, ls, stalled, extractions,
                   exportVars>>

\* ------------------------------------------- saving (App.tsx, persistence.ts)
\* the dependencies of the save effect
deps == <<dailyQueue, activeView, intakeMode, isQueueExported, extractedData, fileName,
          extractionSource, processingItem, isRestored>>

\* a save effect without the early return on !isRestored
armedBeforeRestore == IF deps' # deps THEN TRUE ELSE savePending

\* a save effect that lists only the queue among its dependencies
armedByQueue == IF isRestored' /\ dailyQueue' # dailyQueue THEN TRUE ELSE savePending

\* the save effect after a render: a change of a dependency (re)starts the timer
armed == IF isRestored' /\ deps' # deps THEN TRUE ELSE savePending

\* the timer fires: saveSession builds the session from the state it was armed with
saveTimerFires ==
    /\ savePending
    /\ savePending' = FALSE
    /\ persistOps' = Append(persistOps,
           [op |-> "save",
            dailyQueue |-> dailyQueue,
            session |-> buildSession(dailyQueue, activeView, intakeMode, isQueueExported,
                                     extractedData, fileName, extractionSource,
                                     processingItem, today)])
    /\ UNCHANGED <<today, queueVars, pendingDuplicate, isLoading, processingItem, displayVars,
                   activeView, intakeMode, toastInfo, isRestored, idb, ls, stalled,
                   extractions, exportVars>>

\* saveSession after the await of dbOp: the put took effect or failed, then
\* saveToLocalStorage writes or fails
saveSessionSettles(idbOk, lsOk) ==
    /\ persistOps # <<>> /\ Head(persistOps).op = "save"
    /\ idb' = IF idbOk THEN Head(persistOps).session ELSE idb
    /\ ls' = IF lsOk THEN Head(persistOps).session ELSE ls
    /\ persistOps' = Tail(persistOps)
    /\ UNCHANGED <<today, queueVars, pendingDuplicate, isLoading, processingItem, displayVars,
                   activeView, intakeMode, toastInfo, isRestored, stalled, extractions,
                   exportVars>>

\* saveSession at the await of dbOp for good: the transaction ends with an
\* abort event (a failed commit, as on exceeded quota), and dbOp settles its
\* promise only in oncomplete and onerror.  Nothing after the await runs.
saveSessionStalls ==
    /\ persistOps # <<>> /\ Head(persistOps).op = "save"
    /\ persistOps' = Tail(persistOps)
    /\ stalled' = stalled + 1
    /\ UNCHANGED <<today, queueVars, pendingDuplicate, isLoading, processingItem, displayVars,
                   activeView, intakeMode, toastInfo, isRestored, idb, ls,
                   extractions, exportVars>>

\* clearSession at the await of dbOp for good, and handleClearQueue with it
clearSessionStalls ==
    /\ persistOps # <<>> /\ Head(persistOps).op = "clear"
    /\ persistOps' = Tail(persistOps)
    /\ stalled' = stalled + 1
    /\ UNCHANGED <<today, queueVars, pendingDuplicate, isLoading, processingItem, displayVars,
                   activeView, intakeMode, toastInfo, isRestored, idb, ls,
                   extractions, exportVars>>

\* clearSession after the await of dbOp, then the rest of handleClearQueue
clearSessionSettles(idbOk, lsOk) ==
    /\ persistOps # <<>> /\ Head(persistOps).op = "clear"
    /\ idb' = IF idbOk THEN Null ELSE idb
    /\ ls' = IF lsOk THEN Null ELSE ls
    /\ persistOps' = Tail(persistOps)
    /\ toastInfo' = Toast("Cleared.", "", "success")
    /\ UNCHANGED <<today, queueVars, pendingDuplicate, isLoading, processingItem, displayVars,
                   activeView, intakeMode, isRestored, stalled, extractions, exportVars>>

\* ------------------------------------------------------ downloads (App.tsx)
\* handleExportCsv: the daily CSV of the queue panel; it sets no state
handleExportCsv ==
    /\ activeView = "extraction"
    /\ Len(dailyQueue.items) > 0
    /\ UNCHANGED appVars

\* handleExportThisPoCsv / handleExportThisPoXlsx of the displayed order
resultsShown ==
    activeView = "extraction" /\ extractedData # Null /\ ~isLoading /\ pendingDuplicate = Null

handleExportThisPoCsv ==
    /\ resultsShown
    /\ UNCHANGED appVars

handleExportThisPoXlsx ==
    /\ resultsShown
    /\ UNCHANGED appVars

\* ------------------------------------------- header alignment (utils.ts)
\* values of cells and properties: strings, numbers, undefined, and the
\* functions that every plain object inherits from Object.prototype
Undefined == [undefined |-> TRUE]
Str(s) == [str |-> s]
Num(n) == [num |-> n]
Inherited(name) == [inherited |-> name]

\* An object is the sequence of its own properties, [key, value], in
\* insertion order, which is the order of for..in.
constructorName == <<"c", "o", "n", "s", "t", "r", "u", "c", "t", "o", "r">>
valueOfName == <<"v", "a", "l", "u", "e", "O", "f">>
\* property names that a lookup on a plain object finds on Object.prototype
ObjectPrototypeKeys == {constructorName, valueOfName}

hasOwn(obj, key) == \E i \in 1..Len(obj) : obj[i].key = key

\* obj[key]
get(obj, key) ==
    IF hasOwn(obj, key) THEN obj[CHOOSE i \in 1..Len(obj) : obj[i].key = key].value
    ELSE IF key \in ObjectPrototypeKeys THEN Inherited(key)
    ELSE Undefined

\* obj[v] for a value v: a string names a property, a function does not name
\* one of a row
getBy(obj, v) == IF "str" \in DOMAIN v THEN get(obj, v.str) ELSE Undefined

\* if (v)
truthy(v) == v # Undefined /\ v # Str(<<>>) /\ v # Num(0)

\* s.replace(/[^a-z0-9]/g, '')
stripNonAlphanumeric(s) ==
    SelectSeq(s, LAMBDA c : c \in {LowerCase[i] : i \in DOMAIN LowerCase} \cup Digits)

\* key.toLowerCase().replace(/[^a-z0-9]/g, '')
lowerHeader(key) == stripNonAlphanumeric(toLowerCase(key))

\* for (const k in obj): the first own key that normalizes to lower, or 0
firstNormalized(obj, lower) ==
    IF \E i \in 1..Len(obj) : lowerHeader(obj[i].key) = lower
    THEN CHOOSE i \in 1..Len(obj) :
            /\ lowerHeader(obj[i].key) = lower
            /\ \A j \in 1..(i - 1) : lowerHeader(obj[j].key) # lower
    ELSE 0

datecreated == <<"d", "a", "t", "e", "c", "r", "e", "a", "t", "e", "d">>
batchnumber == <<"b", "a", "t", "c", "h", "n", "u", "m", "b", "e", "r">>
\* the names under which the special mappings read the defaults
DateCreatedKey == <<"D", "a", "t", "e", " ", "C", "r", "e", "a", "t", "e", "d">>
BatchNumberKey == <<"B", "a", "t", "c", "h", " ", "N", "u", "m", "b", "e", "r">>

\* a variant of the callback that asks the keyMap before the defaults
alignCellKeyMapFirst(row, header, defaults, keyMap) ==
    LET key == trim(header)
    IN IF truthy(get(keyMap, key)) THEN getBy(row, get(keyMap, key))
       ELSE IF get(defaults, key) # Undefined THEN get(defaults, key)
       ELSE Str(<<>>)

\* the callback of headers.map: the cell of one row under one header
alignCell(row, header, defaults, keyMap) ==
    LET key == trim(header)
        lower == lowerHeader(key)
        mapKey == firstNormalized(keyMap, lower)
        k == firstNormalized(row, lower)
    IN IF get(defaults, key) # Undefined THEN get(defaults, key)
       ELSE IF lower = datecreated THEN get(defaults, DateCreatedKey)
       ELSE IF lower = batchnumber THEN get(defaults, BatchNumberKey)
       ELSE IF truthy(get(keyMap, key)) THEN getBy(row, get(keyMap, key))
       ELSE IF mapKey # 0 THEN getBy(row, keyMap[mapKey].value)
       ELSE IF k # 0 THEN row[k].value
       ELSE Str(<<>>)

\* a variant that leaves out the cells that came out empty
alignDataToHeadersDropsEmpty(data, headers, defaults, keyMap) ==
    [r \in 1..Len(data) |->
        SelectSeq([h \in 1..Len(headers) |-> alignCell(data[r], headers[h], defaults, keyMap)],
                  LAMBDA cell : cell # Str(<<>>))]

alignDataToHeaders(data, headers, defaults, keyMap) ==
    [r \in 1..Len(data) |->
        [h \in 1..Len(headers) |-> alignCell(data[r], headers[h], defaults, keyMap)]]

\* the header names of handleExportXlsx
Header ==
    [DATE_Created |-> <<"D", "A", "T", "E", " ", "C", "r", "e", "a", "t", "e", "d">>,
     DATE_CREATED |-> <<"D", "A", "T", "E", " ", "C", "R", "E", "A", "T", "E", "D">>,
     BATCH_NUMBER |-> <<"B", "A", "T", "C", "H", " ", "N", "U", "M", "B", "E", "R">>,
     ORDER_DATE |-> <<"O", "R", "D", "E", "R", "_", "D", "A", "T", "E">>,
     CUSTOMER_NAME |-> <<"C", "U", "S", "T", "O", "M", "E", "R", "_", "N", "A", "M", "E">>,
     ORDER_NUMBER |-> <<"O", "R", "D", "E", "R", "_", "N", "U", "M", "B", "E", "R">>,
     PRODUCT_DESCRIPTION |->
        <<"P", "R", "O", "D", "U", "C", "T", "_", "D", "E", "S", "C", "R", "I", "P", "T", "I", "O", "N">>,
     QUANTITY |-> <<"Q", "U", "A", "N", "T", "I", "T", "Y">>,
     INVOICE_QUANTITY |->
        <<"I", "N", "V", "O", "I", "C", "E", "_", "Q", "U", "A", "N", "T", "I", "T", "Y">>,
     TINTING |-> <<"T", "I", "N", "T", "I", "N", "G">>,
     COMMENTS |-> <<"C", "O", "M", "M", "E", "N", "T", "S">>,
     PICKER_NAME |-> <<"P", "I", "C", "K", "E", "R", "_", "N", "A", "M", "E">>]
\* the field names of the rows
Field ==
    [batch_number |-> <<"b", "a", "t", "c", "h", "_", "n", "u", "m", "b", "e", "r">>,
     date_created |-> <<"d", "a", "t", "e", "_", "c", "r", "e", "a", "t", "e", "d">>,
     order_date |-> <<"o", "r", "d", "e", "r", "_", "d", "a", "t", "e">>,
     customer_name |-> <<"c", "u", "s", "t", "o", "m", "e", "r", "_", "n", "a", "m", "e">>,
     order_number |-> <<"o", "r", "d", "e", "r", "_", "n", "u", "m", "b", "e", "r">>,
     product_description |->
        <<"p", "r", "o", "d", "u", "c", "t", "_", "d", "e", "s", "c", "r", "i", "p", "t", "i", "o", "n">>,
     quantity |-> <<"q", "u", "a", "n", "t", "i", "t", "y">>,
     invoice_quantity |->
        <<"i", "n", "v", "o", "i", "c", "e", "_", "q", "u", "a", "n", "t", "i", "t", "y">>,
     tinting |-> <<"t", "i", "n", "t", "i", "n", "g">>,
     comments |-> <<"c", "o", "m", "m", "e", "n", "t", "s">>,
     picker_name |-> <<"p", "i", "c", "k", "e", "r", "_", "n", "a", "m", "e">>,
     order_id |-> <<"o", "r", "d", "e", "r", "_", "i", "d">>,
     invoice_number |->
        <<"i", "n", "v", "o", "i", "c", "e", "_", "n", "u", "m", "b", "e", "r">>,
     no_stock |-> <<"n", "o", "_", "s", "t", "o", "c", "k">>]

Prop(key, value) == [key |-> key, value |-> value]

\* the defaults of handleExportXlsx
exportDefaults(dateCreated, nextBatchNumber) ==
    <<Prop(Header.DATE_Created, Str(dateCreated)), Prop(Header.DATE_CREATED, Str(dateCreated)),
      Prop(Header.BATCH_NUMBER, Num(nextBatchNumber)), Prop(BatchNumberKey, Num(nextBatchNumber))>>

\* the keyMap of handleExportXlsx
exportKeyMap ==
    <<Prop(Header.BATCH_NUMBER, Str(Field.batch_number)), Prop(Header.DATE_CREATED, Str(Field.date_created)),
      Prop(Header.ORDER_DATE, Str(Field.order_date)), Prop(Header.CUSTOMER_NAME, Str(Field.customer_name)),
      Prop(Header.ORDER_NUMBER, Str(Field.order_number)),
      Prop(Header.PRODUCT_DESCRIPTION, Str(Field.product_description)), Prop(Header.QUANTITY, Str(Field.quantity)),
      Prop(Header.INVOICE_QUANTITY, Str(Field.invoice_quantity)), Prop(Header.TINTING, Str(Field.tinting)),
      Prop(Header.COMMENTS, Str(Field.comments)), Prop(Header.PICKER_NAME, Str(Field.picker_name))>>

\* texts of an order in the queue
Text ==
    [red_enamel |-> <<"R", "e", "d", " ", "E", "n", "a", "m", "e", "l">>,
     blue_gloss |-> <<"B", "l", "u", "e", " ", "G", "l", "o", "s", "s">>,
     customer |-> <<"A", "c", "m", "e", " ", "P", "a", "i", "n", "t", "s">>,
     order_number |-> <<"4", "5", "0", "1">>,
     order_date |-> <<"0", "2", "/", "1", "1", "/", "2", "0", "2", "6">>,
     order_id |-> <<"P", "O", "-", "1">>,
     tinting |-> <<"Y">>]

\* one row of queueToExportRows
exportRow(description, qty) ==
    <<Prop(Field.order_id, Str(Text.order_id)), Prop(Field.order_date, Str(Text.order_date)),
      Prop(Field.customer_name, Str(Text.customer)), Prop(Field.order_number, Str(Text.order_number)),
      Prop(Field.product_description, Str(description)), Prop(Field.quantity, Str(qty)),
      Prop(Field.tinting, Str(Text.tinting)), Prop(Field.comments, Str(<<>>)),
      Prop(Field.invoice_number, Str(<<>>)), Prop(Field.no_stock, Str(<<>>))>>

\* the local date of the export, YYYY-MM-DD
DateCreated == <<"2", "0", "2", "6", "-", "1", "1", "-", "0", "3">>

\* header cells of the template, other than those names
Cell ==
    [date_created |-> <<"d", "a", "t", "e", "_", "c", "r", "e", "a", "t", "e", "d">>,
     batch_padded |->
        <<" ", "B", "A", "T", "C", "H", " ", "N", "U", "M", "B", "E", "R", " ">>,
     product_description |->
        <<"P", "r", "o", "d", "u", "c", "t", " ", "D", "e", "s", "c", "r", "i", "p", "t", "i", "o", "n">>,
     notes |-> <<"N", "o", "t", "e", "s">>]
TemplateRow ==
    <<DateCreatedKey, Header.DATE_CREATED, Cell.date_created, BatchNumberKey, Cell.batch_padded,
      Header.BATCH_NUMBER, Header.PRODUCT_DESCRIPTION, Cell.product_description, Cell.notes,
      constructorName>>

\* numbers of headers and of rows in one call
MaxHeaders == 2
MaxRows == 2

SeqsUpTo(S, n) == UNION {[1..k -> S] : k \in 0..n}
Reverse(seq) == [i \in 1..Len(seq) |-> seq[Len(seq) + 1 - i]]
\* the runs of at most n neighbours of seq
Windows(seq, n) ==
    {SubSeq(seq, w[1], w[1] + w[2] - 1) :
        w \in {v \in (1..Len(seq)) \X (0..n) : v[1] + v[2] - 1 <= Len(seq)}}

\* header rows of a template: neighbours of TemplateRow, in either order
HeaderRows == Windows(TemplateRow, MaxHeaders) \cup Windows(Reverse(TemplateRow), MaxHeaders)

\* rows of a full-queue export
ExportRows == {exportRow(Text.red_enamel, <<"2">>), exportRow(Text.blue_gloss, <<"5">>)}
NextBatchNumbers == {1, 8}

\* rows, defaults and keyMaps of other calls
Rows ==
    {<<Prop(Field.product_description, Str(Text.red_enamel))>>,
     <<Prop(Field.batch_number, Num(5)), Prop(Field.product_description, Str(Text.red_enamel))>>}
Defaults ==
    {<<>>,
     <<Prop(Header.BATCH_NUMBER, Num(7))>>,
     <<Prop(BatchNumberKey, Num(7)), Prop(DateCreatedKey, Str(DateCreated))>>}
KeyMaps ==
    {<<>>,
     <<Prop(Header.PRODUCT_DESCRIPTION, Str(Field.product_description))>>,
     <<Prop(Header.BATCH_NUMBER, Str(Field.batch_number)), Prop(Header.PRODUCT_DESCRIPTION, Str(Field.product_description)),
       Prop(Cell.notes, Str(<<>>))>>}

NoAlignCall ==
    [kind |-> "none", data |-> <<>>, headers |-> <<>>, defaults |-> <<>>, keyMap |-> <<>>,
     nextBatchNumber |-> 0]

\* the calls the alignment is followed for
AlignCalls ==
    {[kind |-> "export", data |-> d, headers |-> h, defaults |-> exportDefaults(DateCreated, n),
      keyMap |-> exportKeyMap, nextBatchNumber |-> n] :
         d \in SeqsUpTo(ExportRows, MaxRows), h \in HeaderRows,
         n \in NextBatchNumbers}
    \cup
    {[kind |-> "call", data |-> d, headers |-> h, defaults |-> df, keyMap |-> km,
      nextBatchNumber |-> 0] :
         d \in SeqsUpTo(Rows, MaxRows), h \in HeaderRows,
         df \in Defaults, km \in KeyMaps}

\* handleExportXlsx, steps 2 and 3: the defaults, the keyMap, and the
\* alignment of the queue's rows to the fetched headers
exportAligns ==
    /\ ~alignDone /\ alignInput.kind = "export"
    /\ alignedRows' = alignDataToHeaders(alignInput.data, alignInput.headers,
                                         exportDefaults(DateCreated, alignInput.nextBatchNumber),
                                         exportKeyMap)
    /\ alignDone' = TRUE
    /\ UNCHANGED <<appVars, savePending, events, alignInput, callVars>>

\* a call of alignDataToHeaders
alignCalled ==
    /\ ~alignDone /\ alignInput.kind = "call"
    /\ alignedRows' = alignDataToHeaders(alignInput.data, alignInput.headers,
                                         alignInput.defaults, alignInput.keyMap)
    /\ alignDone' = TRUE
    /\ UNCHANGED <<appVars, savePending, events, alignInput, callVars>>

\* ------------------------------------------------- functions on their own
NoCall == [fn |-> "none"]

\* the frame of a function returning value
returns(fn, value) ==
    /\ returned = Null /\ call.fn = fn
    /\ returned' = [value |-> value]
    /\ UNCHANGED <<appVars, savePending, events, alignVars, call>>

\* --------------------------------------------- template batch scan (types.ts)
EmptySheet == <<"E", "x", "t", "r", "a", "c", "t", "i", "o", "n", " ", "s", "h", "e", "e", "t",
                " ", "i", "s", " ", "e", "m", "p", "t", "y", ".">>

\* extractionHeaders.findIndex(h => h.trim() === "Batch Number"), 0 for -1
batchColIndex(extractionHeaders) ==
    IF \E i \in 1..Len(extractionHeaders) : trim(extractionHeaders[i]) = BatchNumberKey
    THEN CHOOSE i \in 1..Len(extractionHeaders) :
            /\ trim(extractionHeaders[i]) = BatchNumberKey
            /\ \A j \in 1..(i - 1) : trim(extractionHeaders[j]) # BatchNumberKey
    ELSE 0

\* parseInt(row[batchColIndex], 10); a row that ends before the column reads undefined
batchOf(row, col) == IF col <= Len(row) THEN parseInt(row[col]) ELSE NaN

\* the loop over the data rows, from row i on
RECURSIVE maxBatchFrom(_, _, _, _)
maxBatchFrom(extractionData, col, i, maxBatch) ==
    IF i > Len(extractionData) THEN maxBatch
    ELSE LET val == batchOf(extractionData[i], col)
         IN maxBatchFrom(extractionData, col, i + 1,
                         IF val # NaN /\ val > maxBatch THEN val ELSE maxBatch)

\* the extraction part of fetchSheetHeadersAndMaxBatch, from the rows of the sheet
fetchSheetHeadersAndMaxBatch(extractionData) ==
    IF Len(extractionData) = 0 THEN [error |-> EmptySheet]
    ELSE LET extractionHeaders == extractionData[1]
             col == batchColIndex(extractionHeaders)
         IN [extractionHeaders |-> extractionHeaders,
             nextBatchNumber |->
                (IF col # 0 THEN maxBatchFrom(extractionData, col, 2, 0) ELSE 0) + 1]

\* header rows and data rows of the extraction sheet
SheetHeaderRows ==
    {<<BatchNumberKey, Cell.notes>>, <<Cell.notes, BatchNumberKey>>,
     <<Header.BATCH_NUMBER, Cell.notes>>, <<Cell.batch_padded, Cell.notes>>,
     <<Cell.notes, Cell.notes>>}
SheetCells == {<<"7">>, <<"1", "2">>, <<"1", "2", "a">>, <<"x">>}
SheetDataRows == {<<a, b>> : a \in SheetCells, b \in SheetCells} \cup {<<>>}
ExtractionSheets ==
    {<<>>} \cup {<<h>> \o rows : h \in SheetHeaderRows, rows \in SeqsUpTo(SheetDataRows, MaxRows)}

sheetFetched == returns("fetchSheetHeadersAndMaxBatch", fetchSheetHeadersAndMaxBatch(call.sheet))

\* orders to compare by their dedupe keys
OrderFields ==
    [customer_name |-> {<<"A">>, <<"a", " ">>, <<"a", "|", "b">>, <<"A", " ", " ", "b">>,
                        <<"a", " ", "B">>},
     order_number |-> {<<"7">>, <<" ", "7">>, <<"b", "|", "7">>},
     order_date |-> {CanonicalDate, <<>>}]
Orders ==
    {[customer_name |-> c, order_number |-> n, order_date |-> d] :
        c \in OrderFields.customer_name, n \in OrderFields.order_number,
        d \in OrderFields.order_date}

dedupeKeysCreated ==
    returns("createDedupeKey", <<createDedupeKey(call.a), createDedupeKey(call.b)>>)

\* dates written in the ISO form, day first with dashes, and in the target form
isoText(d, m, y) == numberToString(y) \o <<"-">> \o padStart2(m) \o <<"-">> \o padStart2(d)
dashText(d, m, y) == padStart2(d) \o <<"-">> \o padStart2(m) \o <<"-">> \o numberToString(y)
DateParts == [day |-> {1, 2, 13, 29, 31}, month |-> {1, 2, 3, 12}, year |-> {1901, 2023, 2024, 2099}]
Dates == DateParts.day \X DateParts.month \X DateParts.year
CalendarDates == {t \in Dates : t[1] <= daysInMonth(t[3], t[2])}
\* texts that are no date
NoDates ==
    {<<"T", "B", "C">>, <<" ", "T", "B", "C">>, <<"P", "O", " ", "7">>,
     dashText(45, 13, 2024), isoText(45, 13, 2024)}
DateStrings ==
    {isoText(t[1], t[2], t[3]) : t \in Dates} \cup {dashText(t[1], t[2], t[3]) : t \in Dates}
    \cup {formatDate(t[1], t[2], t[3]) : t \in Dates}
    \cup NoDates \cup {<<>>, <<" ">>, <<" ">> \o CanonicalDate}

orderDateNormalized ==
    returns("normalizeOrderDate", normalizeOrderDate(call.dateString, call.host))

\* --------------------------------------------------- tinting rule (types.ts)
TINTING_EXCLUDE_KEYWORDS ==
    <<<<"t", "h", "i", "n", "n", "e", "r", "s">>,
      <<"s", "o", "l", "v", "e", "n", "t", "s">>,
      <<"l", "a", "c", "q", "u", "e", "r">>,
      <<"t", "u", "r", "p", "s">>,
      <<"a", "c", "e", "t", "o", "n", "e">>,
      <<"m", "e", "t", "h", "s">>,
      <<"e", "p", "o", "x", "y">>,
      <<"v", "a", "r", "n", "i", "s", "h">>,
      <<"2", "k">>,
      <<"s", "a", "n", "d", "i", "n", "g", " ", "s", "e", "a", "l", "e", "r">>,
      <<"a", "l", "u", "m", "i", "n", "i", "u", "m">>,
      <<"a", "l", "u", "m", "i", "n", "u", "m">>,
      <<"s", "i", "l", "v", "e", "r">>,
      <<"p", "r", "i", "m", "e", "r">>,
      <<"p", "r", "i", "m", "e", "r", "s">>,
      <<"b", "l", "a", "c", "k">>,
      <<"w", "h", "i", "t", "e">>,
      <<"s", "t", "o", "e", "p">>,
      <<"c", "h", "r", "o", "m", "e">>>>

TINTING_INCLUDE_KEYWORDS ==
    <<<<"r", "e", "d">>,
      <<"b", "l", "u", "e">>,
      <<"g", "r", "e", "e", "n">>,
      <<"g", "r", "e", "y">>,
      <<"g", "r", "a", "y">>,
      <<"b", "r", "o", "w", "n">>,
      <<"c", "r", "e", "a", "m">>,
      <<"y", "e", "l", "l", "o", "w">>,
      <<"o", "r", "a", "n", "g", "e">>,
      <<"m", "e", "t", "a", "l", "l", "i", "c">>,
      <<"h", "a", "m", "m", "e", "r", "t", "o", "n", "e">>,
      <<"r", "a", "l">>>>

\* String.prototype.includes
includes(s, keyword) ==
    \E i \in 1..(Len(s) - Len(keyword) + 1) : SubSeq(s, i, i + Len(keyword) - 1) = keyword
\* keywords.some(keyword => lowerDesc.includes(keyword))
someIncluded(keywords, lowerDesc) ==
    \E k \in 1..Len(keywords) : includes(lowerDesc, keywords[k])
\* String.prototype.toUpperCase on a flag
flagToUpperCase(flag) == IF flag = "y" THEN "Y" ELSE IF flag = "n" THEN "N" ELSE flag

\* a variant of the rule in which an include keyword beats an exclude keyword
isTintableIncludeFirst(description, tintingFlag) ==
    IF flagToUpperCase(tintingFlag) # "Y" THEN FALSE
    ELSE IF someIncluded(TINTING_INCLUDE_KEYWORDS, toLowerCase(description)) THEN TRUE
    ELSE FALSE

isTintable(description, tintingFlag) ==
    IF flagToUpperCase(tintingFlag) # "Y" THEN FALSE
    ELSE LET lowerDesc == toLowerCase(description)
             isExcluded == someIncluded(TINTING_EXCLUDE_KEYWORDS, lowerDesc)
         IN IF isExcluded THEN FALSE
            ELSE someIncluded(TINTING_INCLUDE_KEYWORDS, lowerDesc)

\* product descriptions
Description ==
    [aluminium_primer |-> <<"A", "l", "u", "m", "i", "n", "i", "u", "m", " ", "P", "r", "i", "m", "e", "r">>,
     signal_red_enamel |-> <<"S", "i", "g", "n", "a", "l", " ", "R", "e", "d", " ", "E", "n", "a", "m", "e", "l">>,
     red_primer |-> <<"R", "e", "d", " ", "O", "x", "i", "d", "e", " ", "P", "r", "i", "m", "e", "r">>,
     lacquer_thinners |-> <<"L", "a", "c", "q", "u", "e", "r", " ", "T", "h", "i", "n", "n", "e", "r", "s">>,
     clear_glaze |-> <<"C", "l", "e", "a", "r", " ", "G", "l", "a", "z", "e">>,
     fired_earth |-> <<"F", "i", "r", "e", "d", " ", "E", "a", "r", "t", "h">>,
     ral_black |-> <<"R", "A", "L", " ", "9", "0", "0", "5", " ", "B", "L", "A", "C", "K">>,
     hammertone |-> <<"H", "A", "M", "M", "E", "R", "T", "O", "N", "E", " ", "C", "h", "a", "r", "c", "o", "a", "l">>]
Descriptions == {Description[n] : n \in DOMAIN Description} \cup {<<>>}

\* the entry filterTintingItems pushes for a tintable line of an order
tintingListItem(order, item) ==
    [order_id |-> order.order_id,
     line_id |-> item.line_id,
     customer_name |-> order.customer_name,
     order_number |-> order.order_number,
     order_date |-> order.order_date,
     product_description |-> item.product_description_production,
     quantity |-> item.quantity]

\* the inner loop of filterTintingItems over the lines of one order
tintingOfOrder(order) ==
    LET tintable == SelectSeq(order.items,
                       LAMBDA item : isTintable(item.product_description_raw, item.tinting))
    IN [k \in 1..Len(tintable) |-> tintingListItem(order, tintable[k])]

\* a variant of the loop that puts the lines of a later order in front
RECURSIVE filterTintingItemsNewestFirst(_)
filterTintingItemsNewestFirst(queueItems) ==
    IF queueItems = <<>> THEN <<>>
    ELSE tintingOfOrder(queueItems[Len(queueItems)])
         \o filterTintingItemsNewestFirst(SubSeq(queueItems, 1, Len(queueItems) - 1))

\* filterTintingItems: for (const order of queueItems) for (const item of order.items) push
RECURSIVE filterTintingItems(_)
filterTintingItems(queueItems) ==
    IF queueItems = <<>> THEN <<>>
    ELSE filterTintingItems(SubSeq(queueItems, 1, Len(queueItems) - 1))
         \o tintingOfOrder(queueItems[Len(queueItems)])

\* const tintingItems = filterTintingItems(dailyQueue.items), on every render
tintingItems == filterTintingItems(dailyQueue.items)

tintableChecked == returns("isTintable", isTintable(call.description, call.tintingFlag))

\* the app mounted over what a later version stored
sessionRestored ==
    /\ call.fn = "initSession"
    /\ \E idbReadOk \in BOOLEAN, lsReadOk \in BOOLEAN : initSession(idbReadOk, lsReadOk)
    /\ savePending' = armed
    /\ UNCHANGED <<events, alignVars, callVars>>

\* the updater of handleRemoveQueueItem applied to a queue
queueItemRemoved ==
    returns("handleRemoveQueueItem", withoutOrder(call.queue, call.orderId))

\* queues of up to MaxQueue items: two orders, and a second item under the id
\* of the first
MaxQueue == 3
QueueItemPool ==
    {newQueueItem(normalizedResult(FirstOrder), "PO-1", PdfFileName, 1),
     newQueueItem(normalizedResult(SameOrderOtherLines), "PO-1", PastedName, 1),
     newQueueItem(normalizedResult(FirstOrder), "PO-2", PdfFileName, 1)}
Queues ==
    {[day_key |-> 1, items |-> s] : s \in UNION {[1..k -> QueueItemPool] : k \in 0..MaxQueue}}

Calls ==
    {[fn |-> "fetchSheetHeadersAndMaxBatch", sheet |-> s] : s \in ExtractionSheets}
    \cup {[fn |-> "initSession", stores |-> s] : s \in LaterStores}
    \cup {[fn |-> "createDedupeKey", a |-> a, b |-> b] : a \in Orders, b \in Orders}
    \cup {[fn |-> "normalizeOrderDate", dateString |-> s, host |-> h] :
              s \in DateStrings, h \in Hosts}
    \cup {[fn |-> "isTintable", description |-> d, tintingFlag |-> f] :
              d \in Descriptions, f \in {"Y", "N"}}
    \cup {[fn |-> "handleRemoveQueueItem", queue |-> q, orderId |-> id] :
              q \in Queues, id \in OrderIds \cup {"PO-3"}}
\* the stores a call starts from
storesOf(c) == IF c.fn = "initSession" THEN c.stores ELSE <<Null, Null>>

\* ------------------------------------------------------------ specification
\* the app after construction over the stores an earlier run left
InitAppOver(stores) ==
    /\ today = 1
    /\ dailyQueue = [day_key |-> 1, items |-> <<>>]
    /\ pendingDuplicate = Null
    /\ isQueueExported = FALSE
    /\ isLoading = FALSE
    /\ processingItem = Null
    /\ extractedData = Null
    /\ fileName = ""
    /\ error = NoError
    /\ extractionSource = "null"
    /\ activeView = "extraction"
    /\ intakeMode = "pdf"
    /\ toastInfo = Null
    /\ isRestored = FALSE
    /\ savePending = FALSE
    /\ persistOps = <<>>
    /\ idb = stores[1] /\ ls = stores[2]
    /\ extractions = <<>>
    /\ exports = <<>>
    /\ rollbacks = 0
    /\ workbooks = 0
    /\ posts = 0
    /\ stalled = 0
    /\ events = 0

InitApp == \E stores \in PriorStores : InitAppOver(stores)

Init ==
    /\ InitApp
    /\ alignInput = NoAlignCall
    /\ alignedRows = <<>>
    /\ alignDone = FALSE
    /\ call = NoCall
    /\ returned = Null

\* One event of the run: a handler or callback A runs to its next await, and
\* the save effect of the render that follows re-arms its timer.
Event(A) ==
    /\ events < MaxEvents
    /\ events' = events + 1
    /\ A
    /\ savePending' = armed
    /\ UNCHANGED <<alignVars, callVars>>

TimerEvent ==
    /\ events < MaxEvents
    /\ events' = events + 1
    /\ saveTimerFires
    /\ UNCHANGED <<alignVars, callVars>>

Next ==
    \/ \E a \in BOOLEAN, b \in BOOLEAN : Event(initSession(a, b))
    \/ \E via \in {"select", "drop"} : Event(handleFileSelect(via))
    \/ \E i \in 1..Len(extractions) : Event(fileReaderOnError(i))
    \/ \E i \in 1..Len(extractions) : Event(fileReaderOnLoadEmpty(i))
    \/ \E i \in 1..Len(extractions), m \in PdfErrors : Event(pdfTextFailed(i, m))
    \/ \E i \in 1..Len(extractions) : Event(pdfTextReady(i))
    \/ Event(handleTextExtract)
    \/ \E i \in 1..Len(extractions), r \in Results, id \in OrderIds :
          Event(geminiResolved(i, r, id))
    \/ \E i \in 1..Len(extractions), m \in ExtractionErrors : Event(geminiRejected(i, m))
    \/ Event(handleAddAnyway)
    \/ Event(handleCancelDuplicate)
    \/ \E id \in OrderIds : Event(handleRemoveQueueItem(id))
    \/ \E id \in OrderIds : Event(handleOpenQueueItem(id))
    \/ Event(handleClearQueue)
    \/ TimerEvent
    \/ \E a \in BOOLEAN, b \in BOOLEAN : Event(saveSessionSettles(a, b))
    \/ \E a \in BOOLEAN, b \in BOOLEAN : Event(clearSessionSettles(a, b))
    \/ Event(saveSessionStalls)
    \/ Event(clearSessionStalls)
    \/ \E v \in {"extraction", "Field.tinting"} : Event(setActiveView(v))
    \/ \E m \in {"pdf", "text"} : Event(setIntakeMode(m))
    \/ Event(dayPasses)
    \/ Event(handleExportCsv)
    \/ Event(handleExportThisPoCsv)
    \/ Event(handleExportThisPoXlsx)
    \/ Event(handleExportXlsx)
    \/ \E i \in 1..Len(exports), m \in TemplateErrors : Event(exportTemplateFailed(i, m))
    \/ \E i \in 1..Len(exports) : Event(exportTemplateFetched(i))
    \/ \E i \in 1..Len(exports), r \in PostOutcomes : Event(exportResponded(i, r))
    \/ \E c \in BOOLEAN : Event(handleClearSheetBatch(c))
    \/ \E r \in SheetActionOutcomes : Event(rollbackResponded(r))

Spec == Init /\ [][Next]_vars

\* The export path on its own, one event longer: a file dropped before the
\* session restore settles, the export of the queue, and the panel's buttons.
MaxExportEvents == 7

ExportEvent(A) ==
    /\ events < MaxExportEvents
    /\ events' = events + 1
    /\ A
    /\ savePending' = armed
    /\ UNCHANGED <<alignVars, callVars>>

InitExport == Init /\ idb = ls /\ idb # YesterdaySession

NextExport ==
    \/ ExportEvent(initSession(TRUE, TRUE))
    \/ ExportEvent(handleFileSelect("drop"))
    \/ \E i \in 1..Len(extractions) : ExportEvent(pdfTextReady(i))
    \/ \E i \in 1..Len(extractions), id \in OrderIds :
          ExportEvent(geminiResolved(i, FirstOrder, id))
    \/ \E id \in OrderIds : ExportEvent(handleRemoveQueueItem(id))
    \/ \E id \in OrderIds : ExportEvent(handleOpenQueueItem(id))
    \/ ExportEvent(handleClearQueue)
    \/ ExportEvent(clearSessionSettles(TRUE, TRUE))
    \/ \E v \in {"extraction", "Field.tinting"} : ExportEvent(setActiveView(v))
    \/ ExportEvent(handleExportCsv)
    \/ ExportEvent(handleExportXlsx)
    \/ \E i \in 1..Len(exports), m \in TemplateErrors : ExportEvent(exportTemplateFailed(i, m))
    \/ \E i \in 1..Len(exports) : ExportEvent(exportTemplateFetched(i))
    \/ \E i \in 1..Len(exports), r \in PostOutcomes : ExportEvent(exportResponded(i, r))
    \/ \E c \in BOOLEAN : ExportEvent(handleClearSheetBatch(c))
    \/ \E r \in SheetActionOutcomes : ExportEvent(rollbackResponded(r))

SpecExport == InitExport /\ [][NextExport]_vars

\* The alignment on its own: one call per behaviour, of the full-queue export
\* or with other arguments.
InitAlign ==
    /\ InitApp /\ idb = Null /\ ls = Null
    /\ alignInput \in AlignCalls
    /\ alignedRows = <<>>
    /\ alignDone = FALSE
    /\ call = NoCall
    /\ returned = Null

NextAlign ==
    \/ exportAligns
    \/ alignCalled

SpecAlign == InitAlign /\ [][NextAlign]_vars

\* The functions on their own: one call per behaviour.
InitCalls ==
    /\ call \in Calls
    /\ InitAppOver(storesOf(call))
    /\ alignInput = NoAlignCall
    /\ alignedRows = <<>>
    /\ alignDone = FALSE
    /\ returned = Null

NextCalls ==
    \/ queueItemRemoved
    \/ sheetFetched
    \/ sessionRestored
    \/ dedupeKeysCreated
    \/ orderDateNormalized
    \/ tintableChecked

SpecCalls == InitCalls /\ [][NextCalls]_vars

\* --------------------------------------------------------------- properties
\* the steps that mutate the queue: Append (direct or through Add Anyway),
\* Remove and Clear
AppendsDirectly(i, r, id) ==
    /\ geminiResolved(i, r, id)
    /\ ~isDuplicate(extractions[i].closureKeys, createDedupeKey(normalizedResult(r).order))
QueueMutation ==
    \/ handleAddAnyway
    \/ \E id \in OrderIds : handleRemoveQueueItem(id)
    \/ handleClearQueue
    \/ \E i \in 1..Len(extractions), r \in Results, id \in OrderIds : AppendsDirectly(i, r, id)
RollbackSucceeds ==
    \E r \in SheetActionOutcomes : rollbackResponded(r) /\ r.kind = "json" /\ r.ok

\* C1: an extraction result whose dedupe key is that of an item in the queue
\* at the moment the result is processed is never appended: the queue stays
\* as it is and pendingDuplicate holds the new item, in every interleaving.
C1_DuplicateNeverAppended ==
    [][\A i \in 1..Len(extractions), r \in Results, id \in OrderIds :
          (/\ geminiResolved(i, r, id)
           /\ isDuplicate(dedupeKeys(dailyQueue), createDedupeKey(normalizedResult(r).order)))
          => /\ dailyQueue' = dailyQueue
             /\ pendingDuplicate' = newQueueItem(normalizedResult(r), id,
                                                 extractions[i].filename, today)]_vars

\* C2: a pending duplicate leaves the pending state only by Add Anyway or by
\* Cancel; no other step drops it, replaces it or appends it.
C2_PendingLeavesByDecisionOnly ==
    [][(pendingDuplicate # Null /\ pendingDuplicate' # pendingDuplicate)
          => (handleAddAnyway \/ handleCancelDuplicate)]_vars

\* C3 as stated: with a duplicate of a queued order pending, Add Anyway
\* appends the pending item at the end of the queue, which is one longer and
\* holds both orders, and clears pendingDuplicate; Cancel clears
\* pendingDuplicate and leaves the queue and the exported flag as they are.
C3_AddAnywayMakesTwo ==
    [][/\ (/\ handleAddAnyway
           /\ isDuplicate(dedupeKeys(dailyQueue), pendingDuplicate.dedupe_key))
          => /\ dailyQueue'.items = Append(dailyQueue.items, pendingDuplicate)
             /\ pendingDuplicate' = Null
       /\ handleCancelDuplicate => (pendingDuplicate' = Null /\ UNCHANGED queueVars)]_vars

\* C3 amended: Add Anyway clears pendingDuplicate and appends the pending
\* item at the end of the queue when the queue's day_key is the current day;
\* when it is not, the queue becomes that of the current day with the pending
\* item alone.  Cancel clears pendingDuplicate and leaves the queue and the
\* exported flag as they are.
C3_AddAnywayAppendsPending ==
    [][/\ handleAddAnyway
          => /\ pendingDuplicate' = Null
             /\ dailyQueue' = IF dailyQueue.day_key = today
                              THEN [day_key |-> dailyQueue.day_key,
                                    items |-> dailyQueue.items \o <<pendingDuplicate>>]
                              ELSE [day_key |-> today, items |-> <<pendingDuplicate>>]
       /\ handleCancelDuplicate => (pendingDuplicate' = Null /\ UNCHANGED queueVars)]_vars

\* two orders of the same key and different lines in today's queue, none pending
C3_BothOrdersQueued ==
    /\ dailyQueue.day_key = today
    /\ Len(dailyQueue.items) = 2
    /\ dailyQueue.items[1].dedupe_key = dailyQueue.items[2].dedupe_key
    /\ Len(dailyQueue.items[1].items) # Len(dailyQueue.items[2].items)
    /\ pendingDuplicate = Null
    /\ extractions = <<>>

\* C4: Append makes the queue {day_key: today, items: [item]} when the queue's
\* day_key is not the current day, and otherwise adds the item at the end with
\* day_key and the items before it untouched; Remove and Clear keep day_key,
\* add no item and keep the order of the items that stay, whatever the day.
C4_AppendRollsOverRemoveAndClearDoNot ==
    [][/\ handleAddAnyway
          => dailyQueue' = IF dailyQueue.day_key # today
                           THEN [day_key |-> today, items |-> <<pendingDuplicate>>]
                           ELSE [day_key |-> dailyQueue.day_key,
                                 items |-> dailyQueue.items \o <<pendingDuplicate>>]
       /\ \A i \in 1..Len(extractions), r \in Results, id \in OrderIds :
             AppendsDirectly(i, r, id)
             => LET item == newQueueItem(normalizedResult(r), id, extractions[i].filename, today)
                IN dailyQueue' = IF dailyQueue.day_key # today
                                 THEN [day_key |-> today, items |-> <<item>>]
                                 ELSE [day_key |-> dailyQueue.day_key,
                                       items |-> dailyQueue.items \o <<item>>]
       /\ \A id \in OrderIds :
             handleRemoveQueueItem(id)
             => /\ dailyQueue'.day_key = dailyQueue.day_key
                /\ dailyQueue'.items =
                      SelectSeq(dailyQueue.items, LAMBDA item : item.order_id # id)
       /\ handleClearQueue
          => dailyQueue' = [day_key |-> dailyQueue.day_key, items |-> <<>>]]_vars

\* yesterday's queue was restored and an item appended today replaced it
C4_RolledOver ==
    /\ isRestored
    /\ idb = YesterdaySession /\ ls = YesterdaySession
    /\ dailyQueue.day_key = today
    /\ Len(dailyQueue.items) = 1
    /\ dailyQueue.items[1].created_at_iso = today

\* C5: every step that changes the queue after the session restore (Append,
\* direct or through Add Anyway, Remove, Clear) leaves isQueueExported false.
C5_MutationClearsExportedFlag ==
    [][(QueueMutation \/ (dailyQueue' # dailyQueue /\ isRestored' = isRestored))
          => ~isQueueExported']_vars

\* the exported queue of the day before was restored and its order removed
C5_RemovedFromExportedQueue ==
    /\ isRestored
    /\ idb = YesterdaySession /\ ls = YesterdaySession
    /\ dailyQueue = [day_key |-> 0, items |-> <<>>]
    /\ persistOps = <<>>
    /\ toastInfo # Null /\ toastInfo.message = "Restored previous session"
    /\ ~isQueueExported

\* C6: once true, isQueueExported goes back to false only in a step that
\* mutates the queue (Append, Remove, Clear) or in a successful rollback, and
\* the full-queue export starts only while it is false.
C6_ExportedFlagSticky ==
    [][/\ (isQueueExported /\ ~isQueueExported') => (QueueMutation \/ RollbackSucceeds)
       /\ handleExportXlsx => ~isQueueExported]_vars

\* C7: an export sets isQueueExported exactly when the POST comes back HTTP-ok
\* with JSON that has duplicate or ok; every other outcome keeps the flag and
\* shows a failure, with the remote's message when the answer carries one; and
\* nothing but such an answer (or the session restore) turns the flag on.
C7_FlagFollowsRemoteAnswer ==
    [][/\ \A i \in 1..Len(exports), r \in PostOutcomes :
             exportResponded(i, r)
             => IF r.kind = "json" /\ (r.duplicate \/ r.ok)
                THEN isQueueExported' /\ toastInfo'.type = "success"
                ELSE /\ isQueueExported' = isQueueExported
                     /\ toastInfo'.type = "error"
                     /\ toastInfo'.message = "Export failed: "
                     /\ (r.kind = "json" /\ r.message # "") => toastInfo'.detail = r.message
       /\ \A i \in 1..Len(exports), m \in TemplateErrors :
             exportTemplateFailed(i, m)
             => /\ isQueueExported' = isQueueExported
                /\ toastInfo' = Toast("Export failed: ", m, "error")
       /\ (~isQueueExported /\ isQueueExported')
          => \/ isRestored' # isRestored
             \/ \E i \in 1..Len(exports), r \in PostOutcomes :
                   exportResponded(i, r) /\ r.kind = "json" /\ (r.duplicate \/ r.ok)]_vars

\* the remote refused an export and its message is shown, the flag still off
C7_RemoteRefusalShown ==
    /\ toastInfo = Toast("Export failed: ", "Sheet is locked", "error")
    /\ posts = 1 /\ exports = <<>>
    /\ ~isQueueExported

\* C8: every export that has sent its POST wrote its workbook before, and an
\* export whose template fetch fails writes no workbook, sends no POST, leaves
\* the queue and the flag alone and shows the message.
C8_WorkbookBeforePost ==
    [][/\ \A i \in 1..Len(exports) :
             exportTemplateFetched(i) => (workbooks' = workbooks + 1 /\ posts' = posts + 1)
       /\ \A i \in 1..Len(exports), m \in TemplateErrors :
             exportTemplateFailed(i, m)
             => /\ UNCHANGED <<workbooks, posts, queueVars>>
                /\ toastInfo' = Toast("Export failed: ", m, "error")]_vars

\* C9 as stated: the rollback request is sent only on confirmation, the flag
\* goes off only on an ok answer, the queue is never touched, and isLoading
\* is false after the handler in every case, a declined confirmation included.
C9_RollbackLeavesNotLoading ==
    [][/\ \A c \in BOOLEAN :
             handleClearSheetBatch(c)
             => /\ rollbacks' = (IF c THEN rollbacks + 1 ELSE rollbacks)
                /\ UNCHANGED queueVars
                /\ ~c => ~isLoading'
       /\ \A r \in SheetActionOutcomes :
             rollbackResponded(r)
             => /\ dailyQueue' = dailyQueue
                /\ isQueueExported' =
                      (IF r.kind = "json" /\ r.ok THEN FALSE ELSE isQueueExported)
                /\ ~isLoading']_vars

\* C9 amended: the rollback request is sent only on confirmation; a declined
\* confirmation changes nothing, isLoading included; when the call settles the
\* flag goes off only on an ok answer and isLoading is false; the queue is
\* never touched.
C9_RollbackOnlyOnConfirmAndOk ==
    [][/\ \A c \in BOOLEAN :
             handleClearSheetBatch(c)
             => /\ rollbacks' = (IF c THEN rollbacks + 1 ELSE rollbacks)
                /\ UNCHANGED queueVars
                /\ ~c => UNCHANGED appVars
       /\ \A r \in SheetActionOutcomes :
             rollbackResponded(r)
             => /\ dailyQueue' = dailyQueue
                /\ isQueueExported' =
                      (IF r.kind = "json" /\ r.ok THEN FALSE ELSE isQueueExported)
                /\ ~isLoading'
       /\ rollbacks' > rollbacks => handleClearSheetBatch(TRUE)]_vars

\* the remote refused a rollback: the flag is still on, the queue still there
C9_RollbackRefused ==
    /\ toastInfo = Toast("Rollback failed: ", "Sheet is locked", "error")
    /\ rollbacks = 0
    /\ isQueueExported /\ ~isLoading
    /\ Len(dailyQueue.items) > 0

\* C10: when a saveSession call settles, a loadSession that follows returns
\* the items of the queue the call was given, in the same order and with the
\* same ids and fields: with IndexedDB working (the put and the read succeed),
\* and with every IndexedDB operation failing and localStorage working.
C10_SaveThenLoadReturnsItems ==
    [][\A idbOk \in BOOLEAN, lsOk \in BOOLEAN :
          saveSessionSettles(idbOk, lsOk)
          => /\ idbOk => \A lsReadOk \in BOOLEAN :
                   loadSession(TRUE, lsReadOk)'.dailyQueue.items
                       = Head(persistOps).dailyQueue.items
             /\ (~idbOk /\ lsOk)
                => loadSession(FALSE, TRUE)'.dailyQueue.items
                       = Head(persistOps).dailyQueue.items]_vars

\* a save went to localStorage alone, with two orders in the queue
C10_SavedToFallbackOnly ==
    /\ ls # Null /\ ls # idb
    /\ ls.savedAtISO = today
    /\ Len(ls.queue) = 2
    /\ isDone(ls.queue[1]) /\ isDone(ls.queue[2])
    /\ Len(ls.queue[1].extracted.lines) > 0
    /\ idb \in {Null, YesterdaySession}
    /\ persistOps = <<>>

\* C11: the session restored at start is the IndexedDB record whenever that
\* read succeeds with one, the localStorage record only when it fails or has
\* none, and nothing is restored only when neither store yields a record.
C11_LoadPrefersIndexedDB ==
    [][\A a \in BOOLEAN, b \in BOOLEAN :
          initSession(a, b)
          => LET chosen == IF a /\ idb # Null THEN idb
                           ELSE IF b /\ ls # Null THEN ls ELSE Null
             IN /\ loadSession(a, b) = (IF chosen = Null THEN Null ELSE restoredSession(chosen))
                /\ IF chosen = Null
                   THEN UNCHANGED <<queueVars, activeView, intakeMode, toastInfo>>
                   ELSE /\ dailyQueue' = [day_key |-> chosen.savedAtISO,
                                          items |-> restoredSession(chosen).dailyQueue.items]
                        /\ isQueueExported' = chosen.ui.isQueueExported
                        /\ intakeMode' = chosen.ui.intakeMode]_vars

\* both stores held a session, a different one each, and the IndexedDB one
\* was restored
C11_RestoredFromIndexedDB ==
    /\ isRestored
    /\ idb = YesterdaySession /\ ls = TodaySession
    /\ dailyQueue = restoredSession(YesterdaySession).dailyQueue
    /\ isQueueExported /\ intakeMode = "pdf"
    /\ toastInfo # Null /\ toastInfo.message = "Restored previous session"

\* C12: every saveSession call comes back from its IndexedDB write, whether
\* the write took effect or failed, and then writes the same session to
\* localStorage: a save call is never left without its localStorage write
\* having been attempted.
C12_SaveReachesLocalStorage ==
    [][(persistOps # <<>> /\ Head(persistOps).op = "save" /\ persistOps' = Tail(persistOps))
          => /\ \E idbOk \in BOOLEAN, lsOk \in BOOLEAN : saveSessionSettles(idbOk, lsOk)
             /\ stalled' = stalled]_vars

\* C13: the restore puts every completed order of the stored session into
\* the queue under the day of the session's save timestamp, whatever the
\* current day is; and once restored, a queue whose day_key is not the
\* current day changes only by an Append (direct or through Add Anyway), a
\* Remove or a Clear.
C13_RestoreKeepsSavedDay ==
    [][/\ \A a \in BOOLEAN, b \in BOOLEAN :
             (initSession(a, b) /\ storedSession(a, b) # Null)
             => LET session == storedSession(a, b)
                    done == SelectSeq(session.queue, isDone)
                IN /\ dailyQueue'.day_key = session.savedAtISO
                   /\ Len(dailyQueue'.items) = Len(done)
                   /\ \A k \in 1..Len(done) :
                         /\ dailyQueue'.items[k].order_id = done[k].id
                         /\ dailyQueue'.items[k].created_at_iso = done[k].addedAtISO
       /\ (isRestored /\ dailyQueue.day_key # today /\ dailyQueue' # dailyQueue)
             => QueueMutation]_vars

\* the session of the day before was restored under its own day and is still
\* in the queue after the save that followed the restore
C13_EarlierDayKept ==
    /\ isRestored /\ today = 1
    /\ dailyQueue.day_key = 0
    /\ Len(dailyQueue.items) = 1
    /\ dailyQueue.items[1].order_id = YesterdaySession.queue[1].id
    /\ idb # Null /\ idb.savedAtISO = 1

\* C14: at every moment at which an extraction has its raw text captured and
\* its model call not yet completed, the stores are such that the next
\* loadSession (both reads working) returns a restoredProcessingItem with
\* that text and filename; and every stored session has at most one entry
\* that is not a completed order.
C14_InFlightTextRecoverable ==
    /\ \A i \in 1..Len(extractions) :
          extractions[i].stage = "gemini"
          => /\ loadSession(TRUE, TRUE) # Null
             /\ loadSession(TRUE, TRUE).restoredProcessingItem
                   = [filename |-> extractions[i].filename, text |-> extractions[i].text]
    /\ \A session \in {idb, ls} \ {Null} :
          Len(session.queue) - Len(SelectSeq(session.queue, isDone)) <= 1

\* C15: a saveSession or clearSession call ends without touching the queue,
\* the exported flag or any other UI state, whatever failed in the stores;
\* a clearSession call always comes back to handleClearQueue, which then
\* shows "Cleared."; and loadSession yields nothing when both reads fail.
C15_PersistenceNeverBlocks ==
    [][/\ loadSession(FALSE, FALSE) = Null
       /\ (persistOps # <<>> /\ persistOps' = Tail(persistOps))
             => /\ UNCHANGED <<queueVars, pendingDuplicate, isLoading, processingItem,
                               displayVars, activeView, intakeMode, isRestored>>
                /\ Head(persistOps).op = "save" => toastInfo' = toastInfo
                /\ Head(persistOps).op = "clear"
                      => /\ stalled' = stalled
                         /\ toastInfo' = Toast("Cleared.", "", "success")]_vars

AlignReturns == exportAligns \/ alignCalled

\* C17: in a full-queue export, under every template header that normalizes
\* to 'datecreated' the cell of every row is the date of the export, and
\* under every header that normalizes to 'batchnumber' it is nextBatchNumber.
C17_SpecialHeadersGetDateAndBatch ==
    [][exportAligns
          => \A r \in 1..Len(alignInput.data), h \in 1..Len(alignInput.headers) :
                /\ lowerHeader(alignInput.headers[h]) = datecreated
                      => alignedRows'[r][h] = Str(DateCreated)
                /\ lowerHeader(alignInput.headers[h]) = batchnumber
                      => alignedRows'[r][h] = Num(alignInput.nextBatchNumber)]_vars

\* C18 as stated: a defaults entry under the header's name is the cell,
\* whatever the keyMap and the row hold; with no such entry, a keyMap entry
\* under the header's name makes the cell row[keyMap[header]].
C18_DefaultsThenKeyMap ==
    [][AlignReturns
          => \A r \in 1..Len(alignInput.data), h \in 1..Len(alignInput.headers) :
                LET key == trim(alignInput.headers[h])
                    row == alignInput.data[r]
                IN IF hasOwn(alignInput.defaults, key)
                   THEN alignedRows'[r][h] = get(alignInput.defaults, key)
                   ELSE (hasOwn(alignInput.keyMap, key) /\ truthy(get(alignInput.keyMap, key)))
                           => alignedRows'[r][h] = getBy(row, get(alignInput.keyMap, key))]_vars

\* C18, amended: the property of defaults under the trimmed header's name,
\* own or inherited, is the cell when it is not undefined; else a header that
\* normalizes to 'datecreated' or 'batchnumber' takes defaults['Date Created']
\* or defaults['Batch Number'], whatever the keyMap holds; else a keyMap
\* property under the header's name, if truthy, makes the cell
\* row[keyMap[header]].  The headers BATCH NUMBER, Header.PRODUCT_DESCRIPTION with
\* defaults {BATCH NUMBER: 7} and keyMap {Header.PRODUCT_DESCRIPTION:
\* Field.product_description} give [[7, "Red Enamel"]] for the row with the
\* description alone and for the row that has a Field.batch_number of its own.
C18_DefaultsSpecialsThenKeyMap ==
    [][AlignReturns
          => /\ \A r \in 1..Len(alignInput.data), h \in 1..Len(alignInput.headers) :
                   LET key == trim(alignInput.headers[h])
                       row == alignInput.data[r]
                       cell == alignedRows'[r][h]
                   IN IF get(alignInput.defaults, key) # Undefined
                      THEN cell = get(alignInput.defaults, key)
                      ELSE IF lowerHeader(key) = datecreated
                      THEN cell = get(alignInput.defaults, DateCreatedKey)
                      ELSE IF lowerHeader(key) = batchnumber
                      THEN cell = get(alignInput.defaults, BatchNumberKey)
                      ELSE truthy(get(alignInput.keyMap, key))
                              => cell = getBy(row, get(alignInput.keyMap, key))
             /\ (/\ alignInput.headers = <<Header.BATCH_NUMBER, Header.PRODUCT_DESCRIPTION>>
                 /\ alignInput.defaults = <<Prop(Header.BATCH_NUMBER, Num(7))>>
                 /\ alignInput.keyMap = <<Prop(Header.PRODUCT_DESCRIPTION, Str(Field.product_description))>>
                 /\ Len(alignInput.data) = 1 /\ alignInput.data[1] \in Rows)
                   => alignedRows' = <<<<Num(7), Str(Text.red_enamel)>>>>]_vars

\* the example of C18 for the row that has a Field.batch_number of 5 of its own
C18_DefaultBeatsRowField ==
    /\ alignDone
    /\ alignInput.headers = <<Header.BATCH_NUMBER, Header.PRODUCT_DESCRIPTION>>
    /\ alignInput.defaults = <<Prop(Header.BATCH_NUMBER, Num(7))>>
    /\ alignInput.keyMap = <<Prop(Header.PRODUCT_DESCRIPTION, Str(Field.product_description))>>
    /\ alignInput.data = <<<<Prop(Field.batch_number, Num(5)),
                             Prop(Field.product_description, Str(Text.red_enamel))>>>>
    /\ alignedRows = <<<<Num(7), Str(Text.red_enamel)>>>>

\* C19: under a header with no defaults entry of its name, that is neither of
\* the two special cases, has no keyMap entry of its name or of its
\* normalized name, and no row field of its normalized name, the cell is the
\* empty string.
C19_UnmappedHeaderYieldsEmpty ==
    [][AlignReturns
          => \A r \in 1..Len(alignInput.data), h \in 1..Len(alignInput.headers) :
                LET key == trim(alignInput.headers[h])
                    lower == lowerHeader(key)
                IN (/\ ~hasOwn(alignInput.defaults, key)
                    /\ lower \notin {datecreated, batchnumber}
                    /\ ~hasOwn(alignInput.keyMap, key)
                    /\ firstNormalized(alignInput.keyMap, lower) = 0
                    /\ firstNormalized(alignInput.data[r], lower) = 0)
                   => alignedRows'[r][h] = Str(<<>>)]_vars

\* C20: the result has one row per input row, in the order of the input, and
\* every row has one cell per header, in the order of the headers: the cell
\* at (r, h) is the one of row r under header h.
C20_OneCellPerRowAndHeader ==
    [][AlignReturns
          => /\ Len(alignedRows') = Len(alignInput.data)
             /\ \A r \in 1..Len(alignInput.data) :
                   /\ Len(alignedRows'[r]) = Len(alignInput.headers)
                   /\ \A h \in 1..Len(alignInput.headers) :
                         alignedRows'[r][h] = alignCell(alignInput.data[r], alignInput.headers[h],
                                                        alignInput.defaults, alignInput.keyMap)]_vars

\* two different rows under two different headers, one of them unmapped
C20_TwoByTwo ==
    /\ alignDone
    /\ Len(alignInput.data) = 2 /\ alignInput.data[1] # alignInput.data[2]
    /\ alignInput.headers = <<Cell.product_description, Cell.notes>>
    /\ Len(alignedRows) = 2 /\ alignedRows[1] # alignedRows[2]
    /\ Len(alignedRows[1]) = 2 /\ Len(alignedRows[2]) = 2
    /\ alignedRows[2][2] = Str(<<>>) /\ alignedRows[2][1] # Str(<<>>)

\* the columns the export fills with the batch number: alignDataToHeaders
\* puts the batch default under every header that normalises to batchnumber
batchNumberColumns(headers) ==
    {i \in 1..Len(headers) : lowerHeader(trim(headers[i])) = batchnumber}
\* the integers parseInt finds in column col of the data rows
batchesFound(sheet, col) ==
    {batchOf(sheet[i], col) : i \in 2..Len(sheet)} \ {NaN}
MaxOf(S) == IF S = {} THEN 0 ELSE CHOOSE m \in S : \A n \in S : n <= m

\* C21: fetchSheetHeadersAndMaxBatch returns nextBatchNumber = 1 + the largest
\* integer found in the data rows of the extraction sheet's batch-number
\* column, and 1 when that column holds no integer or the sheet has no data rows.
C21_NextBatchIsMaxPlusOne ==
    [][sheetFetched /\ Len(call.sheet) > 0 =>
        \A col \in batchNumberColumns(call.sheet[1]) :
            returned'.value.nextBatchNumber = 1 + MaxOf(batchesFound(call.sheet, col))]_vars

\* the same for a sheet whose batch column is titled exactly "Batch Number"
C21_ExactTitleScanned ==
    [][sheetFetched /\ Len(call.sheet) > 0 /\ batchColIndex(call.sheet[1]) # 0 =>
        returned'.value.nextBatchNumber
            = 1 + MaxOf(batchesFound(call.sheet, batchColIndex(call.sheet[1])))]_vars

LinesNumbered(item) ==
    \A k \in 1..Len(item.items) : item.items[k].line_id = <<item.order_id, "-L", k>>
\* the lines of item are the rows of the result, in their order
LinesOfRows(item, rows) ==
    /\ Len(item.items) = Len(rows)
    /\ \A k \in 1..Len(rows) :
          /\ item.items[k].product_description_raw = rows[k].product_description_raw
          /\ item.items[k].quantity = rows[k].quantity
          /\ item.items[k].tinting = rows[k].tinting
\* the item a resolved extraction has just built
BuiltItem(i, r) ==
    IF isDuplicate(extractions[i].closureKeys, createDedupeKey(normalizedResult(r).order))
    THEN pendingDuplicate'
    ELSE dailyQueue'.items[Len(dailyQueue'.items)]
QueueItems(queue) == {queue.items[i] : i \in 1..Len(queue.items)}

\* C22: every queue item built from an extraction with n rows has n lines with
\* the line_ids <order_id>-L1 .. <order_id>-Ln in row order, and no step
\* changes an item that stays in the queue: an item of the queue after a step
\* is an item of the queue before it, the pending duplicate that was added, the
\* item the step built, or one restored from storage; a save/load round trip
\* returns each item as it is.
C22_ItemsWellFormedAndFixed ==
    /\ [](\A item \in QueueItems(dailyQueue) :
            LinesNumbered(item) /\ restoredItem(persistedItem(item)) = item)
    /\ [][/\ \A i \in 1..Len(extractions), r \in Results, id \in OrderIds :
              geminiResolved(i, r, id) =>
                  /\ LinesNumbered(BuiltItem(i, r)) /\ BuiltItem(i, r).order_id = id
                  /\ LinesOfRows(BuiltItem(i, r), r.rows)
          /\ \A item \in QueueItems(dailyQueue') :
                \/ item \in QueueItems(dailyQueue)
                \/ handleAddAnyway /\ item = pendingDuplicate
                \/ \E i \in 1..Len(extractions), r \in Results, id \in OrderIds :
                      geminiResolved(i, r, id) /\ item = BuiltItem(i, r)
                \/ ~isRestored /\ isRestored']_vars
\* a two-line item still in the queue after a second item was appended
C22_TwoLineItemBesideAnother ==
    /\ Len(dailyQueue.items) = 2
    /\ Len(dailyQueue.items[1].items) = 2

\* what the reopened view shows of the item
ShowsItem(data, item) ==
    /\ data.order.order_date = item.order_date
    /\ data.order.customer_name = item.customer_name
    /\ data.order.order_number = item.order_number
    /\ Len(data.rows) = Len(item.items)
    /\ \A k \in 1..Len(item.items) : data.rows[k].id = item.items[k].line_id
    /\ data.warnings = <<>>

\* C23: reopening a queue item is read-only: the queue and the exported flag
\* stay as they are and no data is discarded (the pending duplicate, the text
\* in flight and the stored session included); the displayed order has the
\* item's header fields, one row per line in order with id = line_id, and no
\* warnings.
C23_ReopenReadOnly ==
    [][\A id \in OrderIds : handleOpenQueueItem(id) =>
          /\ UNCHANGED <<queueVars, pendingDuplicate, processingItem, idb, ls>>
          /\ ShowsItem(extractedData', findItem(dailyQueue.items, id))]_vars

\* the same without the pending duplicate
C23_ReopenKeepsQueueAndShowsItem ==
    [][\A id \in OrderIds : handleOpenQueueItem(id) =>
          /\ UNCHANGED <<queueVars, processingItem, idb, ls>>
          /\ ShowsItem(extractedData', findItem(dailyQueue.items, id))]_vars

\* C24: loading a stored snapshot whose schemaVersion is higher than 1 is
\* rejected or ignored gracefully: initSession restores no queue from it and
\* completes, whatever the shape of the snapshot.
C24_LaterVersionNotRestored ==
    [][\A a \in BOOLEAN, b \in BOOLEAN :
          (/\ initSession(a, b)
           /\ storedSession(a, b) # Null
           /\ storedSession(a, b).schemaVersion > 1)
          => dailyQueue' = dailyQueue /\ isRestored']_vars

\* the same for a snapshot on which loadSession throws
C24_UnreadableSnapshotIgnored ==
    [][\A a \in BOOLEAN, b \in BOOLEAN :
          (/\ initSession(a, b)
           /\ storedSession(a, b) # Null
           /\ loadSessionThrows(storedSession(a, b)))
          => UNCHANGED <<queueVars, activeView, intakeMode, displayVars, toastInfo>>
             /\ isRestored']_vars

SameNormalizedFields(a, b) ==
    /\ normalize(a.customer_name) = normalize(b.customer_name)
    /\ normalize(a.order_number) = normalize(b.order_number)
    /\ normalize(a.order_date) = normalize(b.order_date)
HasBar(order) ==
    \E f \in {order.customer_name, order.order_number, order.order_date} :
        \E i \in 1..Len(f) : f[i] = "|"

\* C25: for all orders a and b, createDedupeKey(a) = createDedupeKey(b) iff the
\* normalised customer_name, order_number and order_date are pairwise equal.
C25_KeyEqualIffFieldsEqual ==
    [][dedupeKeysCreated =>
          ((returned'.value[1] = returned'.value[2]) <=> SameNormalizedFields(call.a, call.b))]_vars

\* C25 as amended: equal normalised fields give equal keys for all orders, and
\* equal keys give equal normalised fields for orders whose fields hold no "|".
C25_KeyEqualIffFieldsEqualWithoutBar ==
    [][dedupeKeysCreated =>
          /\ SameNormalizedFields(call.a, call.b) => returned'.value[1] = returned'.value[2]
          /\ ~HasBar(call.a) /\ ~HasBar(call.b) /\ returned'.value[1] = returned'.value[2]
                => SameNormalizedFields(call.a, call.b)]_vars

\* C26: for every calendar date with day in 1..31, month in 1..12 and year
\* in 1901..2099 written as yyyy-mm-dd or dd-mm-yyyy, normalizeOrderDate
\* returns the dd/MM/yyyy string of the same day, month and year and no
\* warning, on every host and in every time zone.
C26_DashedDatesReformatted ==
    [][orderDateNormalized =>
          \A t \in CalendarDates :
              call.dateString \in {isoText(t[1], t[2], t[3]), dashText(t[1], t[2], t[3])}
              => returned'.value = [date |-> formatDate(t[1], t[2], t[3]), warning |-> NoWarning]]_vars

\* the same on a host with a strict parser and a zone at or ahead of UTC
C26_DashedDatesReformattedStrictEast ==
    [][orderDateNormalized /\ ~call.host.legacyDates /\ ~call.host.west =>
          \A t \in CalendarDates :
              call.dateString \in {isoText(t[1], t[2], t[3]), dashText(t[1], t[2], t[3])}
              => returned'.value = [date |-> formatDate(t[1], t[2], t[3]), warning |-> NoWarning]]_vars

\* C27: for every valid dd/MM/yyyy string normalizeOrderDate returns that same
\* string with no warning, and normalising its own output changes nothing.
C27_TargetFormPassesThrough ==
    [][orderDateNormalized =>
          \A t \in Dates :
              call.dateString = formatDate(t[1], t[2], t[3])
              => /\ returned'.value = [date |-> call.dateString, warning |-> NoWarning]
                 /\ normalizeOrderDate(returned'.value.date, call.host) = returned'.value]_vars
\* 01/02/2024 has come back from a host with the lenient parser
C27_TargetFormReturned ==
    /\ call.fn = "normalizeOrderDate" /\ call.dateString = CanonicalDate
    /\ call.host.legacyDates
    /\ returned = [value |-> [date |-> CanonicalDate, warning |-> NoWarning]]

\* C28: for a non-empty input that matches none of the recognised date forms
\* normalizeOrderDate returns the input verbatim with a warning that names it;
\* never an empty or altered date without a warning.
C28_UnrecognisedReturnedWithWarning ==
    [][orderDateNormalized /\ call.dateString \in NoDates =>
          /\ returned'.value.date = call.dateString
          /\ returned'.value.warning = UnrecognizedDate(call.dateString)]_vars

\* the same for inputs without surrounding whitespace on a host with a strict parser
C28_UnrecognisedReturnedWithWarningStrict ==
    [][orderDateNormalized /\ call.dateString \in NoDates /\ ~call.host.legacyDates
       /\ trim(call.dateString) = call.dateString =>
          /\ returned'.value.date = call.dateString
          /\ returned'.value.warning = UnrecognizedDate(call.dateString)]_vars
\* an unrecognised input never comes back changed without a warning
C28_NeverAlteredSilently ==
    [][orderDateNormalized /\ call.dateString \in NoDates =>
          \/ returned'.value.warning # NoWarning
          \/ returned'.value.date = call.dateString]_vars

\* C29: isTintable(d, f) is true iff f is 'Y', the lowercased d contains no
\* exclude keyword and contains at least one include keyword; exclude beats
\* include.  Aluminium Primer with Y is not tintable, Signal Red Enamel with Y
\* is, Signal Red Enamel with N is not.
C29_TintableIffFlaggedIncludedNotExcluded ==
    [][tintableChecked =>
          /\ returned'.value =
                (/\ call.tintingFlag = "Y"
                 /\ ~someIncluded(TINTING_EXCLUDE_KEYWORDS, toLowerCase(call.description))
                 /\ someIncluded(TINTING_INCLUDE_KEYWORDS, toLowerCase(call.description)))
          /\ call.description = Description.aluminium_primer => ~returned'.value
          /\ call.description = Description.signal_red_enamel
                => (returned'.value <=> call.tintingFlag = "Y")
          /\ call.description = Description.red_primer => ~returned'.value]_vars
\* a flagged description with an include and an exclude keyword was refused
C29_ExcludeBeatIncludeReturned ==
    /\ call.fn = "isTintable" /\ call.description = Description.red_primer
    /\ call.tintingFlag = "Y"
    /\ returned = [value |-> FALSE]

\* two orders that differ in case and whitespace only have got the same key
C25_SameKeyForRespelledOrder ==
    /\ call.fn = "createDedupeKey" /\ returned # Null
    /\ call.a.customer_name = <<"A", " ", " ", "b">> /\ call.b.customer_name = <<"a", " ", "B">>
    /\ call.a.order_number = <<"7">> /\ call.b.order_number = <<" ", "7">>
    /\ returned.value[1] = returned.value[2]

\* C30: a success response of a full-queue export leaves the exported flag
\* true only for the queue that export sent: when the queue was appended to,
\* removed from or cleared while the template fetch or the POST was in flight,
\* the flag is not left true for the changed queue.
C30_FlagOnlyForExportedQueue ==
    [][\A i \in 1..Len(exports), r \in PostOutcomes :
          exportResponded(i, r) /\ exportOutcome(r).exported
          => ~isQueueExported' \/ dailyQueue'.items = exports[i].queue.items]_vars

\* the same for an export during which the queue stayed as it was sent
C30_FlagForUnchangedQueue ==
    [][\A i \in 1..Len(exports), r \in PostOutcomes :
          exportResponded(i, r) /\ exportOutcome(r).exported
          /\ dailyQueue.items = exports[i].queue.items
          => isQueueExported' /\ dailyQueue'.items = exports[i].queue.items]_vars

\* no save or clear is armed or in flight
Quiescent == isRestored /\ ~savePending /\ persistOps = <<>>
\* the items loadSession would put into the queue
Restorable(idbReadOk, lsReadOk) ==
    IF loadSession(idbReadOk, lsReadOk) = Null THEN {}
    ELSE QueueItems(loadSession(idbReadOk, lsReadOk).dailyQueue)

\* C31: once Clear has completed (its toast is shown over the emptied queue)
\* and persistence is quiescent, loadSession restores no queue item: the
\* items that existed before the Clear are gone from both stores, also when a
\* save was in flight at the Clear or the IndexedDB delete failed.
C31_ClearWipesStores ==
    (/\ Quiescent
     /\ toastInfo = Toast("Cleared.", "", "success")
     /\ dailyQueue.items = <<>>)
    => \A idbReadOk \in BOOLEAN, lsReadOk \in BOOLEAN : Restorable(idbReadOk, lsReadOk) = {}

\* the same when the stores take every delete and write
C31_ClearWipesWorkingStores ==
    [][/\ clearSessionSettles(TRUE, TRUE) => idb' = Null /\ ls' = Null
       /\ (saveSessionSettles(TRUE, TRUE) /\ Head(persistOps).dailyQueue.items = <<>>)
             => \A idbReadOk \in BOOLEAN, lsReadOk \in BOOLEAN :
                    Restorable(idbReadOk, lsReadOk)' = {}]_vars

\* the same for the save of the emptied queue that follows a completed Clear,
\* when only IndexedDB refuses the write and localStorage works
C31_ClearWipesWhenIndexedDBRefuses ==
    [][(/\ saveSessionSettles(FALSE, TRUE)
        /\ Head(persistOps).dailyQueue.items = <<>>
        /\ toastInfo = Toast("Cleared.", "", "success")
        /\ Quiescent')
       => \A idbReadOk \in BOOLEAN, lsReadOk \in BOOLEAN :
              Restorable(idbReadOk, lsReadOk)' = {}]_vars

\* ------------------------------------------------ the debounced save on its own
\* A burst of at most MaxChanges changes of the persisted state; the timer and
\* the stores then run for as long as they have work.  The browser fires a due
\* timer as long as the page lives, which is weak fairness of saveTimerFires.
MaxChanges == 4

Change(A) ==
    /\ events < MaxChanges
    /\ events' = events + 1
    /\ A
    /\ savePending' = armed
    /\ UNCHANGED <<alignVars, callVars>>

\* the callback of setTimeout(..., 500) runs
TimerDue == saveTimerFires /\ UNCHANGED <<events, alignVars, callVars>>

\* a store answers
StoreAnswers(A) == A /\ savePending' = armed /\ UNCHANGED <<events, alignVars, callVars>>

NextSave ==
    \/ \E a \in BOOLEAN, b \in BOOLEAN : Change(initSession(a, b))
    \/ \E id \in OrderIds : Change(handleRemoveQueueItem(id))
    \/ \E id \in OrderIds : Change(handleOpenQueueItem(id))
    \/ Change(handleClearQueue)
    \/ \E v \in {"extraction", "Field.tinting"} : Change(setActiveView(v))
    \/ \E m \in {"pdf", "text"} : Change(setIntakeMode(m))
    \/ TimerDue
    \/ \E a \in BOOLEAN, b \in BOOLEAN : StoreAnswers(saveSessionSettles(a, b))
    \/ \E a \in BOOLEAN, b \in BOOLEAN : StoreAnswers(clearSessionSettles(a, b))
    \/ StoreAnswers(saveSessionStalls)
    \/ StoreAnswers(clearSessionStalls)

SpecSave == Init /\ [][NextSave]_vars /\ WF_vars(TimerDue)

\* the session saveSession would write from the present state
sessionNow ==
    buildSession(dailyQueue, activeView, intakeMode, isQueueExported, extractedData,
                 fileName, extractionSource, processingItem, today)

\* a save is issued in this step
saveIssued ==
    /\ Len(persistOps') = Len(persistOps) + 1
    /\ persistOps'[Len(persistOps')].op = "save"

\* C32: saves are debounced.  Every change of the persisted state after the
\* load (re)starts the one timer and issues no save itself; a save is issued
\* only by the timer, which was running and is then off, so a burst of changes
\* yields one save; that save carries the state after the last change; and a
\* running timer eventually fires, so the latest state is eventually handed to
\* saveSession.
C32_SavesDebounced ==
    /\ [][(isRestored' /\ deps' # deps) => (savePending' /\ ~saveIssued)]_vars
    /\ [][saveIssued => /\ savePending /\ ~savePending'
                        /\ deps' = deps
                        /\ persistOps'[Len(persistOps')].session = sessionNow']_vars
    /\ (savePending ~> ~savePending)

\* Clear and then the change of the tab were one burst: one save waits behind
\* the delete, and it holds the emptied queue under the tinting tab
C32_OneSaveAfterBurst ==
    /\ Len(persistOps) = 2
    /\ persistOps[1].op = "clear"
    /\ persistOps[2].op = "save"
    /\ persistOps[2].session = sessionNow
    /\ activeView = "Field.tinting"
    /\ dailyQueue.items = <<>>
    /\ ~savePending

\* C33: before the load attempt has finished no save is armed, issued or in
\* flight, and the stores keep what they held at startup unless the user's
\* Clear deletes it; the step that finishes the load attempt, and every change
\* after it, starts the save timer whether a session was read or not.
C33_NoSaveBeforeRestore ==
    /\ [](~isRestored => /\ ~savePending
                         /\ \A k \in 1..Len(persistOps) : persistOps[k].op # "save")
    /\ [][~isRestored => /\ ~saveIssued
                         /\ idb' \in {idb, Null}
                         /\ ls' \in {ls, Null}]_vars
    /\ [][(isRestored' /\ deps' # deps) => savePending']_vars

\* the reads failed over a stored session: nothing was restored, the stored
\* session is still there, and the timer of the first save runs
C33_SavingEnabledAfterFailedLoad ==
    /\ isRestored /\ savePending
    /\ events = 1
    /\ idb = TodaySession /\ ls = TodaySession
    /\ dailyQueue.items = <<>>

\* C34: at most one extraction is in flight and isLoading is true while one
\* is, so that no completion clears the flag under a running extraction.
C34_OneExtractionUnderLoading ==
    /\ Len(extractions) <= 1
    /\ extractions # <<>> => isLoading

\* the file input and the paste button start an extraction only while
\* isLoading is false; the drop zone is the entry that does not look at it
C34_SelectAndPasteWaitForLoading ==
    [][(/\ Len(extractions') = Len(extractions) + 1
        /\ isLoading
        /\ extractions # <<>>)
       => /\ extractions'[Len(extractions')].source = "pdf"
          /\ handleFileSelect("drop")]_vars

\* one of two running extractions has ended and has reset isLoading and
\* processingItem while the model call of the other is still out
C34_EndedBesideRunningCall ==
    /\ Len(extractions) = 1
    /\ extractions[1].stage = "gemini"
    /\ ~isLoading
    /\ processingItem = Null
    /\ events = 5

\* the positions of a queue that hold another order than orderId
keptPositions(queue, orderId) ==
    {i \in 1..Len(queue.items) : queue.items[i].order_id # orderId}
\* the k-th of them from the front
keptPosition(queue, orderId, k) ==
    CHOOSE i \in keptPositions(queue, orderId) :
        Cardinality({j \in keptPositions(queue, orderId) : j < i}) = k - 1

\* C35: Remove(order_id) yields the queue without the items of that order: the
\* other items, each unchanged, in the order they had, under the same day_key;
\* a queue without an item of that order comes back as it was.
C35_RemoveDropsExactlyTheOrder ==
    (call.fn = "handleRemoveQueueItem" /\ returned # Null)
    => LET before == call.queue
           after == returned.value
           kept == keptPositions(before, call.orderId)
       IN /\ after.day_key = before.day_key
          /\ DOMAIN after = DOMAIN before
          /\ Len(after.items) = Cardinality(kept)
          /\ \A k \in 1..Len(after.items) :
                 after.items[k] = before.items[keptPosition(before, call.orderId, k)]
          /\ kept = 1..Len(before.items) => after = before

\* the order removed had two items, with an item of another order between them
C35_TwoItemsOfOrderRemoved ==
    /\ call.fn = "handleRemoveQueueItem" /\ returned # Null
    /\ Len(call.queue.items) = 3
    /\ call.queue.items[1].order_id = call.orderId
    /\ call.queue.items[2].order_id # call.orderId
    /\ call.queue.items[3].order_id = call.orderId
    /\ call.queue.items[1] # call.queue.items[3]
    /\ returned.value.items = <<call.queue.items[2]>>

\* in the app the step changes the queue as the updater says, puts the
\* exported flag down and leaves the rest of the state alone
C35_RemoveStepInApp ==
    [][\A id \in OrderIds :
          handleRemoveQueueItem(id)
          => /\ dailyQueue' = withoutOrder(dailyQueue, id)
             /\ dailyQueue'.day_key = dailyQueue.day_key
             /\ ~isQueueExported'
             /\ pendingDuplicate' = pendingDuplicate
             /\ extractedData' = extractedData]_vars

\* extraction i ends in one of its failures
extractionFails(i) ==
    \/ fileReaderOnError(i)
    \/ fileReaderOnLoadEmpty(i)
    \/ \E m \in PdfErrors : pdfTextFailed(i, m)
    \/ \E m \in ExtractionErrors : geminiRejected(i, m)
\* a step of an extraction before its end
extractionProceeds ==
    \/ \E via \in {"select", "drop"} : handleFileSelect(via)
    \/ handleTextExtract
    \/ \E i \in 1..Len(extractions) : pdfTextReady(i)
\* what the error banner can show after a failure
FailureMessages ==
    {"Error reading file.", "Failed to read the PDF file."}
    \cup {"Extraction failed: " \o m : m \in PdfErrors \cup ExtractionErrors}

\* C36: an extraction that fails leaves the queue (items and day_key), the
\* exported flag and a pending duplicate as they were, from its start to its
\* end; the failing step sets one error message and puts isLoading down, so
\* that the intake controls are enabled again.
C36_FailureLeavesQueueAndReports ==
    [][/\ \A i \in 1..Len(extractions) :
             extractionFails(i)
             => /\ dailyQueue' = dailyQueue
                /\ isQueueExported' = isQueueExported
                /\ pendingDuplicate' = pendingDuplicate
                /\ extractedData' = extractedData
                /\ error' \in FailureMessages
                /\ ~isLoading'
       /\ extractionProceeds => /\ dailyQueue' = dailyQueue
                                /\ isQueueExported' = isQueueExported]_vars

\* the model call failed for want of the API key, over a queue that holds an
\* order: the message is shown and nothing runs
C36_FailedOverQueuedOrder ==
    /\ error = "Extraction failed: " \o "Gemini API Key is missing"
    /\ Len(dailyQueue.items) = 1
    /\ extractions = <<>>
    /\ ~isLoading
    /\ processingItem = Null

\* <<i, k>> for line k of item i of the queue when the line is tintable
tintableLines ==
    {p \in UNION {{<<i, k>> : k \in 1..Len(dailyQueue.items[i].items)} :
                     i \in 1..Len(dailyQueue.items)} :
        isTintable(dailyQueue.items[p[1]].items[p[2]].product_description_raw,
                   dailyQueue.items[p[1]].items[p[2]].tinting)}
\* queue order, then line order
linesBefore(p) ==
    {q \in tintableLines : q[1] < p[1] \/ (q[1] = p[1] /\ q[2] < p[2])}

\* C37: the tinting list is, in every state, the tintable lines of the present
\* queue in queue order and then line order, each with the ids and header of
\* its order, so it holds no line of an order that has left the queue; the
\* session a save writes holds the queue and nothing of the list.
C37_TintingListIsTintableLinesOfQueue ==
    /\ Len(tintingItems) = Cardinality(tintableLines)
    /\ \A p \in tintableLines :
          LET entry == tintingItems[Cardinality(linesBefore(p)) + 1]
              order == dailyQueue.items[p[1]]
              line == order.items[p[2]]
          IN /\ entry.order_id = order.order_id
             /\ entry.line_id = line.line_id
             /\ entry.customer_name = order.customer_name
             /\ entry.order_number = order.order_number
             /\ entry.order_date = order.order_date
             /\ entry.product_description = line.product_description_production
             /\ entry.quantity = line.quantity
    /\ \A n \in 1..Len(persistOps) :
          persistOps[n].op = "save"
          => DOMAIN persistOps[n].session
                = {"schemaVersion", "savedAtISO", "queue", "currentExtraction", "ui"}
    /\ idb # Null /\ "ui" \in DOMAIN idb
          => DOMAIN idb.ui = {"activeTab", "intakeMode", "isQueueExported"}

\* two orders are queued, the second with a line that is not tintable after
\* its tintable one: the list has the two tintable lines in queue order
C37_ListOverTwoOrders ==
    /\ Len(dailyQueue.items) = 2
    /\ Len(dailyQueue.items[2].items) = 2
    /\ Len(tintingItems) = 2
    /\ tintingItems[1].order_id # tintingItems[2].order_id
    /\ tintingItems[1].line_id = dailyQueue.items[1].items[1].line_id
    /\ tintingItems[2].line_id = dailyQueue.items[2].items[1].line_id

\* C38: every cell alignDataToHeaders returns is a defined value.
C38_EveryCellDefined ==
    alignDone => \A r \in 1..Len(alignedRows) :
                    \A h \in 1..Len(alignedRows[r]) : alignedRows[r][h] # Undefined

\* an undefined cell comes from one of two lookups only: defaults['Date
\* Created'] or defaults['Batch Number'] for a special header, and
\* row[keyMap[...]] for a header the keyMap maps
C38_UndefinedOnlyFromUncheckedLookups ==
    alignDone
    => \A r \in 1..Len(alignedRows) : \A h \in 1..Len(alignedRows[r]) :
          alignedRows[r][h] = Undefined
          => LET key == trim(alignInput.headers[h])
                 lower == lowerHeader(key)
                 defaults == IF alignInput.kind = "export"
                             THEN exportDefaults(DateCreated, alignInput.nextBatchNumber)
                             ELSE alignInput.defaults
                 keyMap == IF alignInput.kind = "export" THEN exportKeyMap
                           ELSE alignInput.keyMap
             IN \/ lower = datecreated /\ get(defaults, DateCreatedKey) = Undefined
                \/ lower = batchnumber /\ get(defaults, BatchNumberKey) = Undefined
                \/ /\ lower \notin {datecreated, batchnumber}
                   /\ \/ truthy(get(keyMap, key))
                      \/ firstNormalized(keyMap, lower) # 0

\* the full-queue export has left an undefined cell under a date header
C38_UndefinedCellInExport ==
    /\ alignDone /\ alignInput.kind = "export"
    /\ \E r \in 1..Len(alignedRows) : \E h \in 1..Len(alignedRows[r]) :
          /\ alignedRows[r][h] = Undefined
          /\ lowerHeader(trim(alignInput.headers[h])) = datecreated

\* C39: the column fetchSheetHeadersAndMaxBatch scans is the column the
\* alignment fills with the batch number, so that the nextBatchNumber returned
\* is greater than every batch number in that column of the sheet.
C39_ScannedColumnIsFilledColumn ==
    (call.fn = "fetchSheetHeadersAndMaxBatch" /\ returned # Null /\ Len(call.sheet) > 0)
    => \A col \in batchNumberColumns(call.sheet[1]) :
          /\ batchColIndex(call.sheet[1]) = col
          /\ \A b \in batchesFound(call.sheet, col) : returned.value.nextBatchNumber > b

\* the converse holds: a column the scan finds is a column the alignment
\* fills, and the number returned is above every batch number in it
C39_ScannedColumnIsAFilledColumn ==
    (/\ call.fn = "fetchSheetHeadersAndMaxBatch" /\ returned # Null /\ Len(call.sheet) > 0
     /\ batchColIndex(call.sheet[1]) # 0)
    => /\ batchColIndex(call.sheet[1]) \in batchNumberColumns(call.sheet[1])
       /\ \A b \in batchesFound(call.sheet, batchColIndex(call.sheet[1])) :
             returned.value.nextBatchNumber > b

\* a sheet titled BATCH NUMBER with batch 12 in it gets 1 as the next number
C39_FilledColumnNotScanned ==
    /\ call.fn = "fetchSheetHeadersAndMaxBatch" /\ returned # Null
    /\ Len(call.sheet) = 2
    /\ call.sheet[1] = <<Header.BATCH_NUMBER, Cell.notes>>
    /\ batchesFound(call.sheet, 1) = {12}
    /\ returned.value.nextBatchNumber = 1

====
